---- MODULE Spec2Model ----
(***************************************************************************)
(* Conversation-flow engine of chat2world: the per-user FlowScheduler      *)
(* (im/flow.go), the Message model, and the flows registered on it.        *)
(*                                                                         *)
(* Texts are sequences of symbols: "/" and " " are the characters the      *)
(* code inspects, every other symbol stands for a run of characters        *)
(* containing neither.  Errors are wrap chains: <<>> is nil, <<s>> is      *)
(* errors.New(s) and <<p>> \o e is fmt.Errorf("p: %w", e).                 *)
(***************************************************************************)
EXTENDS Integers, Sequences, FiniteSets, TLC

VARIABLES
    flows,                  \* FlowScheduler.flows: name -> Flow instance
    flowCommandEntryPoints, \* FlowScheduler.flowCommandEntryPoints: command -> name
    currentFlow,            \* FlowScheduler.currentFlow ("" when idle)
    hpc,                    \* position of the (serialized) HandleMessage call
    hres,                   \* error value the running flow method is returning
    call,                   \* the call in progress / last call: message, flow invoked, results
    msgCount,               \* number of inbound messages delivered so far
    dialogue,               \* the messages so far, while they are an entry command then answers
    reg,                    \* last RegisterFlow call: arguments, result, state before it
    regCount,               \* number of RegisterFlow calls made so far
    ctxDone,                \* the governing context has been cancelled
    authorizationChan,      \* AuthorizerFlow.authorizationChan per flow instance (0 is nil)
    chanCount,              \* channels made so far
    chanClosed,             \* whether the channel held by the flow instance is closed
    task,                   \* the background authorization task of each authorizer
    cfg,                    \* the configuration each authorization task works on
    hgot,                   \* prompt received from the channel, not yet replied
    outbox,                 \* messages handed to Messenger.SendMessage during the call
    taskWrote,              \* prompts the tasks have written into their channels
    taskRead,               \* answers the tasks have read from their channels
    userGot,                \* prompt texts AuthorizerFlow handed to the Messenger
    turn,                   \* handshake turn per authorizer: prompted / answered / none
    chanOps,                \* sends and receives AuthorizerFlow attempted on its channel
    posts,                  \* PostingFlow.posts: user id -> draft
    postCalls,              \* Platform.Post calls made by the last /send
    sender,                 \* concurrent PostingFlow handler calls: position and locals of each
    postsMutex,             \* PostingFlow.postsMutex: "" when free, else the holder
    published,              \* Platform.Post calls made by the concurrent calls
    updates,                \* Bot.defaultHandler callbacks, one per update: position and locals
    flowSchedulers,         \* Bot.flowSchedulers[user]: the scheduler stored (0 is nil)
    handling,               \* updates in the order their FlowScheduler.HandleMessage call began
    botFatal,               \* the runtime ended the process on a concurrent map access
    parsed                  \* a Message.AsCommand call: its receiver and what it returned

schedVars == <<flows, flowCommandEntryPoints, currentFlow>>
callVars == <<hpc, hres, call, msgCount, dialogue>>
regVars == <<reg, regCount>>
chanVars == <<authorizationChan, chanCount, chanClosed, task, cfg>>
histVars == <<taskWrote, taskRead, userGot, turn, chanOps>>
authVars == <<ctxDone, chanVars, hgot, histVars>>
postVars == <<posts, postCalls>>
sendVars == <<sender, postsMutex, published>>
botVars == <<updates, flowSchedulers, handling, botFatal>>
vars == <<schedVars, callVars, regVars, authVars, outbox, postVars, sendVars, botVars, parsed>>

----------------------------------------------------------------------------
(* Bounds *)

MaxMsgs == 4      \* inbound messages of a run of the program
MaxRegs == 2      \* RegisterFlow calls of a run of the scheduler library
MaxRegMsgs == 2   \* inbound messages of a run of the scheduler library
MaxCmdList == 2   \* length of the command list of a RegisterFlow call
MaxPostMsgs == 4  \* inbound messages of a run of the posting flow
MaxUpdates == 3   \* updates of one user the transport delivers
MaxTextLen == 4   \* symbols of a text given to Message.AsCommand

----------------------------------------------------------------------------
(* Errors *)

Nil == <<>>
ErrFlowFinished == <<"flow finished">>
ErrFlowTriggerConflict == <<"flow trigger conflict">>
ErrFlowAlreadyRegistered == <<"flow already registered">>
ErrNotACommand == <<"not a command">>

Wrap(prefix, err) == <<prefix>> \o err

\* errors.Is: some error of the unwrap chain is the target
ErrorsIs(err, target) ==
    \E i \in 1..Len(err) : SubSeq(err, i, Len(err)) = target

----------------------------------------------------------------------------
(* Message model *)

\* messageFromTelegramMessage leaves Message.IM at its zero value
TheIM == ""
TheChat == 7
TheUser == 42

\* the user writes from two chats, which the messages alternate between
ChatOf(id) == TheChat + (id % 2)

NewMessage(id, text, images) ==
    [IM |-> TheIM, ChatID |-> ChatOf(id), UserID |-> TheUser, MsgID |-> id,
     InReplyTo |-> 0, Text |-> text, Images |-> images]

\* a variant of Reply that addresses the user's first chat whatever the message
ReplyToFirstChat(m, text) ==
    [IM |-> TheIM, ChatID |-> TheChat, UserID |-> TheUser, MsgID |-> 0,
     InReplyTo |-> m.MsgID, Text |-> text, Images |-> <<>>]

Reply(m, text) ==
    [IM |-> m.IM, ChatID |-> m.ChatID, UserID |-> m.UserID, MsgID |-> 0,
     InReplyTo |-> m.MsgID, Text |-> text, Images |-> <<>>]

IsCommand(m) == Len(m.Text) > 0 /\ m.Text[1] = "/"

IsEmpty(m) == m.Text = <<>> /\ Len(m.Images) = 0

\* strings.Split(s, sep) for a one-symbol separator
RECURSIVE SplitAcc(_, _, _)
SplitAcc(s, sep, cur) ==
    IF s = <<>> THEN <<cur>>
    ELSE IF Head(s) = sep THEN <<cur>> \o SplitAcc(Tail(s), sep, <<>>)
    ELSE SplitAcc(Tail(s), sep, Append(cur, Head(s)))

Split(s, sep) == SplitAcc(s, sep, <<>>)

\* a variant of AsCommand that splits on runs of spaces, as strings.Fields does
AsCommandFields(m) ==
    IF ~IsCommand(m)
    THEN [command |-> <<>>, args |-> <<>>, err |-> Wrap("text", ErrNotACommand)]
    ELSE LET parts == SelectSeq(Split(m.Text, " "), LAMBDA t : t # <<>>)
         IN  [command |-> Head(parts), args |-> Tail(parts), err |-> Nil]

\* Message.AsCommand(nil)
AsCommand(m) ==
    IF ~IsCommand(m)
    THEN [command |-> <<>>, args |-> <<>>, err |-> Wrap("text", ErrNotACommand)]
    ELSE LET parts == Split(m.Text, " ")
         IN  [command |-> Head(parts), args |-> Tail(parts), err |-> Nil]

Cmd(w) == <<"/", w>>

\* no AsCommand call to speak of
NotParsed == [m |-> NewMessage(0, <<>>, <<>>), done |-> FALSE,
              command |-> <<>>, args |-> <<>>, err |-> Nil]

\* m.AsCommand(nil) is called and returns
ParseAsCommand ==
    /\ ~parsed.done
    /\ parsed.m.MsgID # 0
    /\ LET r == AsCommand(parsed.m)
       IN  parsed' = [parsed EXCEPT !.done = TRUE, !.command = r.command,
                                    !.args = r.args, !.err = r.err]
    /\ UNCHANGED <<schedVars, callVars, regVars, authVars, outbox, postVars, sendVars, botVars>>

----------------------------------------------------------------------------
(* Flow instances *)

StubFlows == {"f1", "f2"}
NoFlow == "nil"

\* what an arbitrary Flow implementation may return from Start / HandleMessage
StubResults ==
    {Nil, <<"boom">>, ErrFlowFinished, Wrap("inner", ErrFlowFinished)}

AuthFlows == {"maf", "bskyAF"}

FlowKind(inst) ==
    IF inst \in AuthFlows THEN "auth"
    ELSE IF inst = "posting" THEN "posting"
    ELSE IF inst \in StubFlows THEN "stub"
    ELSE "nil"

\* the process has ended: a panic in the handler or log.Fatal in a task
Crashed == hpc = "panicked" \/ \E a \in AuthFlows : task[a].pc = "fatal"

----------------------------------------------------------------------------
(* FlowScheduler *)

NewScheduler == [flows |-> <<>>, flowCommandEntryPoints |-> <<>>, currentFlow |-> ""]

Bind(map, k, v) == [x \in (DOMAIN map) \cup {k} |-> IF x = k THEN v ELSE map[x]]

\* a variant of RegisterCommands that rebinds the bound command it stops at
RECURSIVE RegisterCommandsRebind(_, _, _)
RegisterCommandsRebind(entry, name, commands) ==
    IF commands = <<>> THEN [entry |-> entry, err |-> Nil]
    ELSE IF Head(commands) \in DOMAIN entry
         THEN [entry |-> Bind(entry, Head(commands), name),
               err |-> Wrap("command", ErrFlowTriggerConflict)]
         ELSE RegisterCommandsRebind(Bind(entry, Head(commands), name), name, Tail(commands))

\* the loop over commands of RegisterFlow: binds until a bound command is met
RECURSIVE RegisterCommands(_, _, _)
RegisterCommands(entry, name, commands) ==
    IF commands = <<>> THEN [entry |-> entry, err |-> Nil]
    ELSE IF Head(commands) \in DOMAIN entry
         THEN [entry |-> entry, err |-> Wrap("command", ErrFlowTriggerConflict)]
         ELSE RegisterCommands(Bind(entry, Head(commands), name), name, Tail(commands))

\* a variant of RegisterFlowEffect that looks for the name after binding the commands
RegisterFlowNameLast(fl, entry, f, name, commands) ==
    LET r == RegisterCommands(entry, name, commands)
    IN  IF r.err # Nil
        THEN [flows |-> fl, entry |-> r.entry, err |-> r.err]
        ELSE IF name \in DOMAIN fl
        THEN [flows |-> fl, entry |-> r.entry, err |-> Wrap("name", ErrFlowAlreadyRegistered)]
        ELSE [flows |-> Bind(fl, name, f), entry |-> r.entry, err |-> Nil]

\* RegisterFlow on a scheduler value: the new maps and the error returned
RegisterFlowEffect(fl, entry, f, name, commands) ==
    IF name \in DOMAIN fl
    THEN [flows |-> fl, entry |-> entry, err |-> Wrap("name", ErrFlowAlreadyRegistered)]
    ELSE LET r == RegisterCommands(entry, name, commands)
         IN  IF r.err # Nil
             THEN [flows |-> fl, entry |-> r.entry, err |-> r.err]
             ELSE [flows |-> Bind(fl, name, f), entry |-> r.entry, err |-> Nil]

RegisterFlow(f, name, commands) ==
    /\ ~Crashed
    /\ hpc = "idle"
    /\ LET r == RegisterFlowEffect(flows, flowCommandEntryPoints, f, name, commands)
       IN  /\ flows' = r.flows
           /\ flowCommandEntryPoints' = r.entry
           /\ reg' = [f |-> f, name |-> name, commands |-> commands, err |-> r.err,
                      prevFlows |-> flows, prevEntry |-> flowCommandEntryPoints]
    /\ regCount' = regCount + 1
    /\ UNCHANGED <<currentFlow, callVars, authVars, outbox, postVars, sendVars, botVars, parsed>>

NoReg == [f |-> NoFlow, name |-> "", commands |-> <<>>, err |-> Nil,
          prevFlows |-> <<>>, prevEntry |-> <<>>]

NoCall == [msg |-> NewMessage(0, <<>>, <<>>), pre |-> "", flow |-> "", method |-> "",
           flowRes |-> Nil, ret |-> Nil, done |-> FALSE, sentAnswer |-> FALSE,
           ctxAbort |-> ""]

\* where a call of `method` on flow instance `inst` begins
EntryPc(inst, method) ==
    IF FlowKind(inst) = "auth" THEN (IF method = "Start" THEN "auth_start" ELSE "auth_hm")
    ELSE IF FlowKind(inst) = "posting" THEN "post_hm"
    ELSE IF FlowKind(inst) = "stub" THEN "stub"
    ELSE "panicked"

FlowOf(name) == IF name \in DOMAIN flows THEN flows[name] ELSE NoFlow

\* a variant of DispatchIdle that looks up the whole text instead of the command token
DispatchIdleWholeText(entry, m) ==
    IF IsCommand(m) /\ m.Text \in DOMAIN entry
    THEN [currentFlow |-> entry[m.Text], flow |-> entry[m.Text], method |-> "Start", ret |-> Nil]
    ELSE [currentFlow |-> "", flow |-> "", method |-> "", ret |-> Nil]

\* a variant of DispatchIdle that reports an unregistered command as an error
DispatchIdleStrict(entry, m) ==
    IF IsCommand(m) /\ AsCommand(m).command \in DOMAIN entry
    THEN [currentFlow |-> entry[AsCommand(m).command], flow |-> entry[AsCommand(m).command],
          method |-> "Start", ret |-> Nil]
    ELSE [currentFlow |-> "", flow |-> "", method |-> "",
          ret |-> IF IsCommand(m) THEN <<"command not recognized">> ELSE Nil]

\* FlowScheduler.HandleMessage when no flow is active: the flow to start, if any
DispatchIdle(entry, m) ==
    IF ~IsCommand(m)
    THEN [currentFlow |-> "", flow |-> "", method |-> "", ret |-> Nil]
    ELSE LET p == AsCommand(m)
         IN  IF p.err # Nil
             THEN [currentFlow |-> "", flow |-> "", method |-> "",
                   ret |-> IF ErrorsIs(p.err, ErrNotACommand) THEN Nil
                           ELSE Wrap("parsing message", p.err)]
             ELSE IF p.command \in DOMAIN entry
             THEN [currentFlow |-> entry[p.command], flow |-> entry[p.command],
                   method |-> "Start", ret |-> Nil]
             ELSE [currentFlow |-> "", flow |-> "", method |-> "", ret |-> Nil]

\* a variant of Dispatch that looks at the entry commands before the running flow
DispatchEntryFirst(cur, entry, m) ==
    IF cur # "" /\ ~(IsCommand(m) /\ AsCommand(m).command \in DOMAIN entry)
    THEN [currentFlow |-> cur, flow |-> cur, method |-> "HandleMessage", ret |-> Nil]
    ELSE DispatchIdle(entry, m)

\* FlowScheduler.HandleMessage: which flow method the message goes to
Dispatch(cur, entry, m) ==
    IF cur # ""
    THEN [currentFlow |-> cur, flow |-> cur, method |-> "HandleMessage", ret |-> Nil]
    ELSE DispatchIdle(entry, m)

\* the record of a conversation that is an entry command, then answers only
NoDialogue == [on |-> TRUE, flow |-> "", answers |-> <<>>]
OffDialogue == [on |-> FALSE, flow |-> "", answers |-> <<>>]

Heard(dlg, d, m) ==
    IF ~dlg.on THEN OffDialogue
    ELSE IF dlg.flow = ""
         THEN IF d.method = "Start" /\ m.Text = AsCommand(m).command /\ m.Images = <<>>
              THEN [on |-> TRUE, flow |-> d.flow, answers |-> <<>>]
              ELSE OffDialogue
         ELSE IF ~IsCommand(m) /\ ~IsEmpty(m)
              THEN [dlg EXCEPT !.answers = Append(@, m.Text)]
              ELSE OffDialogue

\* FlowScheduler.HandleMessage up to the call into the flow
SchedulerHandleMessage(text, images) ==
    /\ ~Crashed
    /\ hpc = "idle"
    /\ msgCount' = msgCount + 1
    /\ hres' = Nil
    /\ outbox' = <<>>
    /\ LET m == NewMessage(msgCount + 1, text, images)
           d == Dispatch(currentFlow, flowCommandEntryPoints, m)
       IN  /\ dialogue' = Heard(dialogue, d, m)
           /\ currentFlow' = d.currentFlow
           /\ call' = [NoCall EXCEPT !.msg = m, !.pre = currentFlow, !.flow = d.flow,
                                     !.method = d.method, !.ret = d.ret,
                                     !.done = (d.method = "")]
           /\ hpc' = IF d.method = "" THEN "idle" ELSE EntryPc(FlowOf(d.flow), d.method)
    /\ UNCHANGED <<flows, flowCommandEntryPoints, regVars, authVars, postVars, sendVars, botVars, parsed>>

\* a variant of SchedulerOutcome that retires the flow on every error
SchedulerOutcomeRetire(method, cur, err) ==
    IF method = "Start" THEN [currentFlow |-> cur, ret |-> err]
    ELSE IF err # Nil
         THEN IF ErrorsIs(err, ErrFlowFinished)
              THEN [currentFlow |-> "", ret |-> Nil]
              ELSE [currentFlow |-> "", ret |-> Wrap("handling message", err)]
         ELSE [currentFlow |-> cur, ret |-> Nil]

\* a variant of SchedulerOutcome that compares the error with == instead of errors.Is
SchedulerOutcomePlain(method, cur, err) ==
    IF method = "Start" THEN [currentFlow |-> cur, ret |-> err]
    ELSE IF err # Nil
         THEN IF err = ErrFlowFinished
              THEN [currentFlow |-> "", ret |-> Nil]
              ELSE [currentFlow |-> cur, ret |-> Wrap("handling message", err)]
         ELSE [currentFlow |-> cur, ret |-> Nil]

\* a variant of SchedulerOutcome that goes back to idle when Start fails
SchedulerOutcomeRevert(method, cur, err) ==
    IF method = "Start" THEN [currentFlow |-> IF err # Nil THEN "" ELSE cur, ret |-> err]
    ELSE IF err # Nil
         THEN IF ErrorsIs(err, ErrFlowFinished)
              THEN [currentFlow |-> "", ret |-> Nil]
              ELSE [currentFlow |-> cur, ret |-> Wrap("handling message", err)]
         ELSE [currentFlow |-> cur, ret |-> Nil]

\* what the scheduler does with the error a flow method returned
SchedulerOutcome(method, cur, err) ==
    IF method = "Start" THEN [currentFlow |-> cur, ret |-> err]
    ELSE IF err # Nil
         THEN IF ErrorsIs(err, ErrFlowFinished)
              THEN [currentFlow |-> "", ret |-> Nil]
              ELSE [currentFlow |-> cur, ret |-> Wrap("handling message", err)]
         ELSE [currentFlow |-> cur, ret |-> Nil]

\* the flow method returned: FlowScheduler.HandleMessage finishes
SchedulerReturn ==
    /\ ~Crashed
    /\ hpc = "return"
    /\ LET o == SchedulerOutcome(call.method, currentFlow, hres)
       IN  /\ currentFlow' = o.currentFlow
           /\ call' = [call EXCEPT !.flowRes = hres, !.ret = o.ret, !.done = TRUE]
    /\ hpc' = "idle"
    /\ hres' = Nil
    /\ UNCHANGED <<flows, flowCommandEntryPoints, msgCount, dialogue, regVars, authVars, outbox, postVars, sendVars, botVars, parsed>>

\* a Flow implementation about which nothing is known runs and returns
StubFlowRun ==
    /\ ~Crashed
    /\ hpc = "stub"
    /\ \E r \in StubResults : hres' = r
    /\ hpc' = "return"
    /\ UNCHANGED <<schedVars, call, msgCount, dialogue, regVars, authVars, outbox, postVars, sendVars, botVars, parsed>>

----------------------------------------------------------------------------
(* AuthorizerFlow.HandleMessage: its decisions *)

\* a variant of AnswerDue that forgets the check for an empty message
AnswerDueNotCommand(m) == ~IsCommand(m)

\* the message carries an answer to send into the channel
AnswerDue(m) == ~IsCommand(m) /\ ~IsEmpty(m)

\* a variant of CtxDoneResult that reports the cancellation as an error
CtxDoneResultErr == <<"context canceled">>

\* what HandleMessage returns when a select takes <-ctx.Done()
CtxDoneResult == Nil

\* a variant of OnReceive that treats a closed channel as a value-less success
OnReceiveNoSentinel(ok) ==
    [reply |-> ok, err |-> Nil]

\* the receive case: ok is false when the channel is closed
OnReceive(ok) ==
    IF ~ok THEN [reply |-> FALSE, err |-> ErrFlowFinished]
    ELSE [reply |-> TRUE, err |-> Nil]

----------------------------------------------------------------------------
(* Background authorization tasks (Authorizer.StartAuthorization)          *)
(*                                                                         *)
(* A task is at `start`, arriving at a select that sends a prompt (`send`) *)
(* or receives an answer (`recv`), parked in that select (`*_blocked`),    *)
(* doing work that uses no channel (`work`), about to run its deferred     *)
(* close (`closing`), finished (`closed`), or it ended the process with    *)
(* log.Fatal (`fatal`).  `at` names the configuration field the step is    *)
(* about.  A select takes one of the cases that are ready when it is       *)
(* reached and parks only when none is; a parked select is woken by the    *)
(* first case to become ready.                                             *)
(***************************************************************************)

NoTask == [pc |-> "none", at |-> "", chan |-> 0]

BaseConfig == [Server |-> <<>>, AccessToken |-> <<>>]
EmptyBskyConfig == [User |-> <<>>, AppPassword |-> <<>>]
StoredBskyConfig == [User |-> <<"u">>, AppPassword |-> <<"p">>]
PartialBskyConfig == [User |-> <<"u">>, AppPassword |-> <<>>]

PromptText(a, at) ==
    IF a = "maf"
    THEN IF at = "Server" THEN <<"What is the mastodon instance server URL?">>
         ELSE <<"Open your browser and copy/paste the given token">>
    ELSE IF at = "User" THEN <<"What is your Bluesky username?">>
         ELSE <<"What is your Bluesky Application password?">>

\* bluesky: the check of cfg.AppPassword and what follows it
BskyCheckPassword(c) ==
    IF c.AppPassword = <<>> THEN [pc |-> "send", at |-> "AppPassword"]
    ELSE [pc |-> "work", at |-> "authenticate"]

\* mastodon: the check of cfg.AccessToken after the app is registered
MastodonCheckToken(c) ==
    IF c.AccessToken = <<>> THEN [pc |-> "send", at |-> "AccessToken"]
    ELSE [pc |-> "work", at |-> "authenticate"]

\* first step of the task body
TaskFirst(a, c) ==
    IF a = "maf"
    THEN IF c.Server = <<>> THEN [pc |-> "send", at |-> "Server"]
         ELSE [pc |-> "work", at |-> "register_app"]
    ELSE IF c.User = <<>> THEN [pc |-> "send", at |-> "User"]
         ELSE BskyCheckPassword(c)

\* after the prompt for `at` was written: wait for the answer
TaskAfterSend(a, at) == [pc |-> "recv", at |-> at]

\* after the answer for `at` was stored in the configuration c
TaskAfterReceive(a, at, c) ==
    IF a = "maf"
    THEN IF at = "Server" THEN [pc |-> "work", at |-> "register_app"]
         ELSE [pc |-> "work", at |-> "authenticate"]
    ELSE IF at = "User" THEN BskyCheckPassword(c)
         ELSE [pc |-> "work", at |-> "authenticate"]

\* the <-ctx.Done() case of the select at (pc, at)
TaskOnCtx(a, pc, at) ==
    IF a = "maf" /\ at = "AccessToken"
    THEN IF pc = "send" THEN [pc |-> "recv", at |-> at]
         ELSE [pc |-> "work", at |-> "authenticate"]
    ELSE [pc |-> "closing", at |-> ""]

\* after a piece of work that did not end the process
TaskAfterWork(a, at, c) ==
    IF a = "maf" /\ at = "register_app" THEN MastodonCheckToken(c)
    ELSE [pc |-> "closing", at |-> ""]

Step(t, n) == [t EXCEPT !.pc = n.pc, !.at = n.at]

\* the flow instance the running call is in
hflow == FlowOf(call.flow)

\* the running call is parked on the channel of task a
HandlerParked(a, pc) ==
    /\ hpc = pc
    /\ hflow = a
    /\ authorizationChan[a] = task[a].chan

TaskStart(a) ==
    /\ ~Crashed
    /\ task[a].pc = "start"
    /\ LET c == IF a = "maf" THEN BaseConfig ELSE cfg[a]
       IN  /\ cfg' = [cfg EXCEPT ![a] = c]
           /\ task' = [task EXCEPT ![a] = Step(@, TaskFirst(a, c))]
    /\ UNCHANGED <<schedVars, callVars, regVars, ctxDone, authorizationChan, chanCount,
                   chanClosed, hgot, histVars, outbox, postVars, sendVars, botVars, parsed>>

\* the task reaches `select { case comms <- prompt: ; case <-ctx.Done(): }`
TaskSend(a) ==
    /\ ~Crashed
    /\ task[a].pc = "send"
    /\ \/ /\ HandlerParked(a, "recv_blocked")
          /\ task' = [task EXCEPT ![a] = Step(@, TaskAfterSend(a, task[a].at))]
          /\ taskWrote' = Append(taskWrote, PromptText(a, task[a].at))
          /\ hgot' = PromptText(a, task[a].at)
          /\ hpc' = "reply"
          /\ UNCHANGED <<taskRead, userGot, turn, chanOps>>
       \/ /\ ctxDone
          /\ task' = [task EXCEPT ![a] = Step(@, TaskOnCtx(a, "send", task[a].at))]
          /\ UNCHANGED <<hpc, hgot, histVars>>
       \/ /\ ~ctxDone
          /\ ~HandlerParked(a, "recv_blocked")
          /\ task' = [task EXCEPT ![a].pc = "send_blocked"]
          /\ UNCHANGED <<hpc, hgot, histVars>>
    /\ UNCHANGED <<schedVars, hres, call, msgCount, dialogue, regVars, ctxDone, authorizationChan,
                   chanCount, chanClosed, cfg, outbox, postVars, sendVars, botVars, parsed>>

\* the task reaches `select { case cfg.X = <-comms: ; case <-ctx.Done(): }`
TaskReceive(a) ==
    /\ ~Crashed
    /\ task[a].pc = "recv"
    /\ \/ /\ HandlerParked(a, "send_blocked")
          /\ LET c == [cfg[a] EXCEPT ![task[a].at] = call.msg.Text]
             IN  /\ cfg' = [cfg EXCEPT ![a] = c]
                 /\ task' = [task EXCEPT ![a] = Step(@, TaskAfterReceive(a, task[a].at, c))]
          /\ taskRead' = Append(taskRead, [text |-> call.msg.Text, from |-> call.msg])
          /\ turn' = [turn EXCEPT ![a] = "answered"]
          /\ call' = [call EXCEPT !.sentAnswer = TRUE]
          /\ hpc' = "recv"
          /\ UNCHANGED <<taskWrote, userGot, chanOps>>
       \/ /\ ctxDone
          /\ task' = [task EXCEPT ![a] = Step(@, TaskOnCtx(a, "recv", task[a].at))]
          /\ UNCHANGED <<hpc, call, cfg, histVars>>
       \/ /\ ~ctxDone
          /\ ~HandlerParked(a, "send_blocked")
          /\ task' = [task EXCEPT ![a].pc = "recv_blocked"]
          /\ UNCHANGED <<hpc, call, cfg, histVars>>
    /\ UNCHANGED <<schedVars, hres, msgCount, dialogue, regVars, ctxDone, authorizationChan,
                   chanCount, chanClosed, hgot, outbox, postVars, sendVars, botVars, parsed>>

\* RegisterApp / AuthenticateToken / AuthenticateBluesky and the saving of
\* the configuration: the task goes on, or log.Fatal ends the process
TaskWork(a) ==
    /\ ~Crashed
    /\ task[a].pc = "work"
    /\ \/ task' = [task EXCEPT ![a] = Step(@, TaskAfterWork(a, task[a].at, cfg[a]))]
       \/ task' = [task EXCEPT ![a].pc = "fatal"]
    /\ UNCHANGED <<schedVars, callVars, regVars, ctxDone, authorizationChan, chanCount,
                   chanClosed, cfg, hgot, histVars, outbox, postVars, sendVars, botVars, parsed>>

\* the deferred close(comms): a parked receiver sees the channel closed, a
\* parked sender panics
TaskClose(a) ==
    /\ ~Crashed
    /\ task[a].pc = "closing"
    /\ task' = [task EXCEPT ![a].pc = "closed"]
    /\ chanClosed' = [chanClosed EXCEPT ![a] = @ \/ authorizationChan[a] = task[a].chan]
    /\ IF HandlerParked(a, "recv_blocked")
       THEN hpc' = "return" /\ hres' = OnReceive(FALSE).err
       ELSE IF HandlerParked(a, "send_blocked")
       THEN hpc' = "panicked" /\ UNCHANGED hres
       ELSE UNCHANGED <<hpc, hres>>
    /\ UNCHANGED <<schedVars, call, msgCount, dialogue, regVars, ctxDone, authorizationChan,
                   chanCount, cfg, hgot, histVars, outbox, postVars, sendVars, botVars, parsed>>

\* the governing context is cancelled: every parked select takes ctx.Done()
Cancel ==
    /\ ~Crashed
    /\ ~ctxDone
    /\ ctxDone' = TRUE
    /\ task' = [a \in AuthFlows |->
                   IF task[a].pc = "send_blocked" THEN Step(task[a], TaskOnCtx(a, "send", task[a].at))
                   ELSE IF task[a].pc = "recv_blocked" THEN Step(task[a], TaskOnCtx(a, "recv", task[a].at))
                   ELSE task[a]]
    /\ IF hpc \in {"send_blocked", "recv_blocked"}
       THEN /\ hpc' = "return"
            /\ hres' = CtxDoneResult
            /\ call' = [call EXCEPT !.ctxAbort = "blocked"]
       ELSE UNCHANGED <<hpc, hres, call>>
    /\ UNCHANGED <<schedVars, msgCount, dialogue, regVars, authorizationChan, chanCount, chanClosed,
                   cfg, hgot, histVars, outbox, postVars, sendVars, botVars, parsed>>

----------------------------------------------------------------------------
(* AuthorizerFlow *)

\* Authorizer.StartAuthorization up to the spawning of the task: the error
\* returned and the client configuration afterwards
StartAuthorizationOutcomes(a) ==
    IF a = "bskyAF" /\ cfg[a].User = <<>>
    THEN {[err |-> Nil, cfg |-> cfg[a]],
          [err |-> Nil, cfg |-> StoredBskyConfig],
          [err |-> <<"loading config", "loading configuration for bsky from disk", "decode">>,
           cfg |-> cfg[a]]}
    ELSE {[err |-> Nil, cfg |-> cfg[a]]}

\* AuthorizerFlow.Start up to its call of HandleMessage
AuthorizerStart ==
    /\ ~Crashed
    /\ hpc = "auth_start"
    /\ \E o \in StartAuthorizationOutcomes(hflow) :
         IF o.err # Nil
         THEN /\ hres' = Wrap("starting authorization", o.err)
              /\ hpc' = "return"
              /\ UNCHANGED <<chanVars, turn, chanOps>>
         ELSE /\ chanCount' = chanCount + 1
              /\ authorizationChan' = [authorizationChan EXCEPT ![hflow] = chanCount + 1]
              /\ chanClosed' = [chanClosed EXCEPT ![hflow] = FALSE]
              /\ task' = [task EXCEPT ![hflow] = [pc |-> "start", at |-> "", chan |-> chanCount + 1]]
              /\ cfg' = [cfg EXCEPT ![hflow] = o.cfg]
              /\ turn' = [turn EXCEPT ![hflow] = "none"]
              /\ chanOps' = [chanOps EXCEPT ![hflow] = 0]
              /\ hpc' = "auth_hm"
              /\ UNCHANGED hres
    /\ UNCHANGED <<schedVars, call, msgCount, dialogue, regVars, ctxDone, hgot, taskWrote, taskRead,
                   userGot, outbox, postVars, sendVars, botVars, parsed>>

\* AuthorizerFlow.HandleMessage up to its first select
AuthorizerHandleMessage ==
    /\ ~Crashed
    /\ hpc = "auth_hm"
    /\ IF authorizationChan[hflow] = 0
       THEN hpc' = "return" /\ hres' = <<"no authorization channel">>
       ELSE IF AnswerDue(call.msg)
       THEN hpc' = "send" /\ UNCHANGED hres
       ELSE hpc' = "recv" /\ UNCHANGED hres
    /\ UNCHANGED <<schedVars, call, msgCount, dialogue, regVars, authVars, outbox, postVars, sendVars, botVars, parsed>>

\* `select { case a.authorizationChan <- message.Text: ; case <-ctx.Done(): return nil }`
AuthorizerSend ==
    /\ ~Crashed
    /\ hpc = "send"
    /\ LET a == hflow
           ready == task[a].pc = "recv_blocked" /\ task[a].chan = authorizationChan[a]
       IN  \/ /\ ready
              /\ LET c == [cfg[a] EXCEPT ![task[a].at] = call.msg.Text]
                 IN  /\ cfg' = [cfg EXCEPT ![a] = c]
                     /\ task' = [task EXCEPT ![a] = Step(@, TaskAfterReceive(a, task[a].at, c))]
              /\ taskRead' = Append(taskRead, [text |-> call.msg.Text, from |-> call.msg])
              /\ turn' = [turn EXCEPT ![a] = "answered"]
              /\ call' = [call EXCEPT !.sentAnswer = TRUE]
              /\ hpc' = "recv"
              /\ UNCHANGED hres
           \/ /\ chanClosed[a]
              /\ hpc' = "panicked"
              /\ UNCHANGED <<hres, call, task, cfg, taskRead, turn>>
           \/ /\ ctxDone
              /\ hpc' = "return"
              /\ hres' = CtxDoneResult
              /\ call' = [call EXCEPT !.ctxAbort = "arrive"]
              /\ UNCHANGED <<task, cfg, taskRead, turn>>
           \/ /\ ~ready /\ ~chanClosed[a] /\ ~ctxDone
              /\ hpc' = "send_blocked"
              /\ UNCHANGED <<hres, call, task, cfg, taskRead, turn>>
    /\ chanOps' = [chanOps EXCEPT ![hflow] = @ + 1]
    /\ UNCHANGED <<schedVars, msgCount, dialogue, regVars, ctxDone, authorizationChan, chanCount,
                   chanClosed, hgot, taskWrote, userGot, outbox, postVars, sendVars, botVars, parsed>>

\* `select { case msg, ok := <-a.authorizationChan: ... ; case <-ctx.Done(): return nil }`
AuthorizerReceive ==
    /\ ~Crashed
    /\ hpc = "recv"
    /\ LET a == hflow
           ready == task[a].pc = "send_blocked" /\ task[a].chan = authorizationChan[a]
       IN  \/ /\ ready
              /\ task' = [task EXCEPT ![a] = Step(@, TaskAfterSend(a, task[a].at))]
              /\ taskWrote' = Append(taskWrote, PromptText(a, task[a].at))
              /\ hgot' = PromptText(a, task[a].at)
              /\ hpc' = "reply"
              /\ UNCHANGED <<hres, call>>
           \/ /\ chanClosed[a]
              /\ hpc' = "return"
              /\ hres' = OnReceive(FALSE).err
              /\ UNCHANGED <<call, task, taskWrote, hgot>>
           \/ /\ ctxDone
              /\ hpc' = "return"
              /\ hres' = CtxDoneResult
              /\ call' = [call EXCEPT !.ctxAbort = "arrive"]
              /\ UNCHANGED <<task, taskWrote, hgot>>
           \/ /\ ~ready /\ ~chanClosed[a] /\ ~ctxDone
              /\ hpc' = "recv_blocked"
              /\ UNCHANGED <<hres, call, task, taskWrote, hgot>>
    /\ chanOps' = [chanOps EXCEPT ![hflow] = @ + 1]
    /\ UNCHANGED <<schedVars, msgCount, dialogue, regVars, ctxDone, authorizationChan, chanCount,
                   chanClosed, cfg, taskRead, userGot, turn, outbox, postVars, sendVars, botVars, parsed>>

\* messenger.SendMessage(ctx, message.Reply(msg)) and the return after it
AuthorizerReply ==
    /\ ~Crashed
    /\ hpc = "reply"
    /\ \E ok \in BOOLEAN :
         /\ outbox' = Append(outbox, [msg |-> Reply(call.msg, hgot), ok |-> ok])
         /\ hres' = IF ok THEN Nil ELSE Wrap("sending message", <<"telegram send message">>)
    /\ userGot' = Append(userGot, hgot)
    /\ turn' = [turn EXCEPT ![hflow] = "prompted"]
    /\ hgot' = <<>>
    /\ hpc' = "return"
    /\ UNCHANGED <<schedVars, call, msgCount, dialogue, regVars, ctxDone, chanVars, taskWrote,
                   taskRead, chanOps, postVars, sendVars, botVars, parsed>>

----------------------------------------------------------------------------
(* PostingFlow *)

Platforms == {"mastodon", "bluesky"}
PlatformOrders == {<<"mastodon", "bluesky">>, <<"bluesky", "mastodon">>}

SendErr == <<"telegram send message">>
PostErr == <<"failed to post status">>
PostURL(pname) == <<"https://", pname, "/1">>

NoPosts == <<>>
HasDraft(ps, userID) == userID \in DOMAIN ps
DeleteDraft(ps, userID) == [u \in (DOMAIN ps) \ {userID} |-> ps[u]]

\* strings.SplitN(s, sep, 2)
RECURSIVE IndexOf(_, _, _)
IndexOf(s, sep, i) ==
    IF i > Len(s) THEN 0 ELSE IF s[i] = sep THEN i ELSE IndexOf(s, sep, i + 1)

SplitN2(s, sep) ==
    LET i == IndexOf(s, sep, 1)
    IN  IF i = 0 THEN <<s>> ELSE <<SubSeq(s, 1, i - 1), SubSeq(s, i + 1, Len(s))>>

RECURSIVE argsIntoMaps(_)
argsIntoMaps(args) ==
    IF args = <<>> THEN [argMap |-> <<>>, remainingArgs |-> <<>>]
    ELSE LET parts == SplitN2(Head(args), "=")
             rest == argsIntoMaps(Tail(args))
         IN  IF Len(parts) = 2
             THEN [argMap |-> IF parts[1] \in DOMAIN rest.argMap THEN rest.argMap
                              ELSE Bind(rest.argMap, parts[1], parts[2]),
                   remainingArgs |-> rest.remainingArgs]
             ELSE [argMap |-> rest.argMap,
                   remainingArgs |-> <<Head(args)>> \o rest.remainingArgs]

Out(m, text, ok) == [msg |-> Reply(m, text), ok |-> ok]

\* a variant of newCommandHandler that starts over when a draft exists
newCommandHandlerOverwrite(m, ps, ok) ==
    [posts |-> Bind(ps, m.UserID, [Text |-> <<>>, Images |-> <<>>, Langs |-> <<>>]),
     calls |-> <<>>,
     err |-> IF ok THEN Nil ELSE Wrap("messenger send message err", SendErr),
     out |-> <<Out(m, IF HasDraft(ps, m.UserID) THEN <<"You already have an active post.">>
                      ELSE <<"Started a new post.">>, ok)>>]

newCommandHandler(m, ps, ok) ==
    LET args == AsCommand(m).args
        kv == argsIntoMaps(args).argMap
        positional == argsIntoMaps(args).remainingArgs
        langs == IF <<"langs">> \in DOMAIN kv THEN Split(kv[<<"langs">>], ",")
                 ELSE IF Len(positional) > 0 THEN Split(positional[1], ",")
                 ELSE <<>>
        err == IF ok THEN Nil ELSE Wrap("messenger send message err", SendErr)
    IN  IF HasDraft(ps, m.UserID)
        THEN [posts |-> ps, calls |-> <<>>, err |-> err,
              out |-> <<Out(m, <<"You already have an active post.">>, ok)>>]
        ELSE [posts |-> Bind(ps, m.UserID, [Text |-> <<>>, Images |-> <<>>, Langs |-> langs]),
              calls |-> <<>>, err |-> err,
              out |-> <<Out(m, <<"Started a new post.">>, ok)>>]

\* a variant of PostToAll that leaves the loop at the first failed Post
RECURSIVE PostToAllStopAtFailure(_, _, _, _, _)
PostToAllStopAtFailure(m, post, order, postOk, sendOk) ==
    IF order = <<>> THEN [calls |-> <<>>, out |-> <<>>, postErrs |-> <<>>]
    ELSE LET pname == Head(order)
             c == [platform |-> pname, post |-> post, ok |-> postOk[pname]]
         IN  IF ~postOk[pname]
             THEN [calls |-> <<c>>,
                   out |-> <<Out(m, <<"Post Not sent to ", pname>> \o PostErr, sendOk[pname])>>,
                   postErrs |-> IF sendOk[pname] THEN <<>> ELSE <<SendErr>>]
             ELSE LET rest == PostToAllStopAtFailure(m, post, Tail(order), postOk, sendOk)
                  IN  [calls |-> <<c>> \o rest.calls,
                       out |-> <<Out(m, <<"Post sent to ", pname>> \o PostURL(pname), sendOk[pname])>>
                               \o rest.out,
                       postErrs |-> rest.postErrs]

\* the loop over the platforms of sendCommandHandler, in iteration order
RECURSIVE PostToAll(_, _, _, _, _)
PostToAll(m, post, order, postOk, sendOk) ==
    IF order = <<>> THEN [calls |-> <<>>, out |-> <<>>, postErrs |-> <<>>]
    ELSE LET pname == Head(order)
             rest == PostToAll(m, post, Tail(order), postOk, sendOk)
             c == [platform |-> pname, post |-> post, ok |-> postOk[pname]]
         IN  IF ~postOk[pname]
             THEN [calls |-> <<c>> \o rest.calls,
                   out |-> <<Out(m, <<"Post Not sent to ", pname>> \o PostErr, sendOk[pname])>>
                           \o rest.out,
                   postErrs |-> (IF sendOk[pname] THEN <<>> ELSE <<SendErr>>) \o rest.postErrs]
             ELSE [calls |-> <<c>> \o rest.calls,
                   out |-> <<Out(m, <<"Post sent to ", pname>> \o PostURL(pname), sendOk[pname])>>
                           \o rest.out,
                   postErrs |-> rest.postErrs]

\* a variant of sendCommandHandler that says nothing when there is no draft
sendCommandHandlerSilent(m, ps, ok, order, postOk, sendOk) ==
    IF ~HasDraft(ps, m.UserID)
    THEN [posts |-> ps, calls |-> <<>>, err |-> Nil, out |-> <<>>]
    ELSE LET r == PostToAll(m, ps[m.UserID], order, postOk, sendOk)
         IN  [posts |-> DeleteDraft(ps, m.UserID), calls |-> r.calls, out |-> r.out,
              err |-> IF Len(r.postErrs) > 0 THEN <<"posting errors">> ELSE Nil]

sendCommandHandler(m, ps, ok, order, postOk, sendOk) ==
    IF ~HasDraft(ps, m.UserID)
    THEN [posts |-> ps, calls |-> <<>>,
          err |-> IF ok THEN Nil ELSE Wrap("messenger send message err", SendErr),
          out |-> <<Out(m, <<"No active post to send.">>, ok)>>]
    ELSE LET r == PostToAll(m, ps[m.UserID], order, postOk, sendOk)
         IN  [posts |-> DeleteDraft(ps, m.UserID), calls |-> r.calls, out |-> r.out,
              err |-> IF Len(r.postErrs) > 0 THEN <<"posting errors">> ELSE Nil]

\* a variant of cancelCommandHandler that announces the cancellation and keeps the draft
cancelCommandHandlerKeep(m, ps, ok) ==
    [posts |-> ps, calls |-> <<>>,
     err |-> IF ok THEN Nil ELSE Wrap("messenger send message err", SendErr),
     out |-> <<Out(m, IF HasDraft(ps, m.UserID) THEN <<"Post canceled.">>
                      ELSE <<"No active post to cancel.">>, ok)>>]

\* a variant of cancelCommandHandler that reports the flow as finished
cancelCommandHandlerFinish(m, ps, ok) ==
    [posts |-> DeleteDraft(ps, m.UserID), calls |-> <<>>,
     err |-> ErrFlowFinished,
     out |-> <<Out(m, IF HasDraft(ps, m.UserID) THEN <<"Post canceled.">>
                      ELSE <<"No active post to cancel.">>, ok)>>]

cancelCommandHandler(m, ps, ok) ==
    [posts |-> DeleteDraft(ps, m.UserID), calls |-> <<>>,
     err |-> IF ok THEN Nil ELSE Wrap("messenger send message err", SendErr),
     out |-> <<Out(m, IF HasDraft(ps, m.UserID) THEN <<"Post canceled.">>
                      ELSE <<"No active post to cancel.">>, ok)>>]

NewBlogImage(data, altText) == [Data |-> data, AltText |-> altText]

RECURSIVE AddImages(_, _)
AddImages(images, imgs) ==
    IF imgs = <<>> THEN images
    ELSE AddImages(Append(images, NewBlogImage(Head(imgs).Data, Head(imgs).Caption)), Tail(imgs))

\* a variant of defaultHandler that starts a draft from content sent without one
defaultHandlerAutoDraft(m, ps, ok) ==
    IF IsEmpty(m) THEN [posts |-> ps, calls |-> <<>>, err |-> Nil, out |-> <<>>]
    ELSE LET post == IF HasDraft(ps, m.UserID) THEN ps[m.UserID]
                     ELSE [Text |-> <<>>, Images |-> <<>>, Langs |-> <<>>]
             text == IF m.Text # <<>>
                     THEN (IF Len(post.Text) # 0 THEN post.Text \o <<"\n">> ELSE post.Text)
                          \o m.Text
                     ELSE post.Text
         IN  [posts |-> Bind(ps, m.UserID,
                             [post EXCEPT !.Text = text, !.Images = AddImages(@, m.Images)]),
              calls |-> <<>>,
              err |-> IF ok THEN Nil ELSE Wrap("responding after content add", SendErr),
              out |-> <<Out(m, IF HasDraft(ps, m.UserID) THEN <<"Content added to your post">>
                               ELSE <<"No active post. Use /new to start writing a new post.">>,
                            ok)>>]

\* a variant of defaultHandler that joins the texts without the newline
defaultHandlerNoNewline(m, ps, ok) ==
    IF IsEmpty(m) THEN [posts |-> ps, calls |-> <<>>, err |-> Nil, out |-> <<>>]
    ELSE IF ~HasDraft(ps, m.UserID)
    THEN [posts |-> ps, calls |-> <<>>,
          err |-> IF ok THEN Nil
                  ELSE Wrap("messenger, sending no active post message", SendErr),
          out |-> <<Out(m, <<"No active post. Use /new to start writing a new post.">>, ok)>>]
    ELSE [posts |-> [ps EXCEPT ![m.UserID] =
                        [@ EXCEPT !.Text = @ \o m.Text, !.Images = AddImages(@, m.Images)]],
          calls |-> <<>>,
          err |-> IF ok THEN Nil ELSE Wrap("responding after content add", SendErr),
          out |-> <<Out(m, <<"Content added to your post">>, ok)>>]

defaultHandler(m, ps, ok) ==
    IF IsEmpty(m) THEN [posts |-> ps, calls |-> <<>>, err |-> Nil, out |-> <<>>]
    ELSE IF ~HasDraft(ps, m.UserID)
    THEN [posts |-> ps, calls |-> <<>>,
          err |-> IF ok THEN Nil
                  ELSE Wrap("messenger, sending no active post message", SendErr),
          out |-> <<Out(m, <<"No active post. Use /new to start writing a new post.">>, ok)>>]
    ELSE LET post == ps[m.UserID]
             text == IF m.Text # <<>>
                     THEN (IF Len(post.Text) # 0 THEN post.Text \o <<"\n">> ELSE post.Text)
                          \o m.Text
                     ELSE post.Text
             added == m.Text # <<>> \/ Len(m.Images) > 0
         IN  [posts |-> [ps EXCEPT ![m.UserID] =
                            [@ EXCEPT !.Text = text, !.Images = AddImages(@, m.Images)]],
              calls |-> <<>>,
              err |-> IF ok THEN Nil ELSE Wrap("responding after content add", SendErr),
              out |-> <<Out(m, IF added THEN <<"Content added to your post">>
                               ELSE <<"Received message, but no content was added.">>, ok)>>]

\* PostingFlow.HandleMessage under one choice of what the collaborators do
PostingFlowHandleMessage(m, ps, ok, order, postOk, sendOk) ==
    IF ~IsCommand(m)
    THEN LET r == defaultHandler(m, ps, ok)
         IN  [r EXCEPT !.err = IF r.err # Nil THEN Wrap("default handler", r.err) ELSE Nil]
    ELSE LET command == AsCommand(m).command
         IN  IF command = Cmd("new") THEN newCommandHandler(m, ps, ok)
             ELSE IF command = Cmd("send") THEN sendCommandHandler(m, ps, ok, order, postOk, sendOk)
             ELSE IF command = Cmd("cancel") THEN cancelCommandHandler(m, ps, ok)
             ELSE defaultHandler(m, ps, ok)

\* PostingFlow.Start / PostingFlow.HandleMessage run to their return
PostingHandleMessage ==
    /\ ~Crashed
    /\ hpc = "post_hm"
    /\ \E ok \in BOOLEAN, order \in PlatformOrders,
          postOk \in [Platforms -> BOOLEAN], sendOk \in [Platforms -> BOOLEAN] :
         LET r == PostingFlowHandleMessage(call.msg, posts, ok, order, postOk, sendOk)
         IN  /\ posts' = r.posts
             /\ outbox' = outbox \o r.out
             /\ postCalls' = r.calls
             /\ hres' = r.err
    /\ hpc' = "return"
    /\ UNCHANGED <<schedVars, call, msgCount, dialogue, regVars, authVars, sendVars, botVars, parsed>>

----------------------------------------------------------------------------
(* PostingFlow.sendCommandHandler called concurrently for one user          *)
(*                                                                         *)
(* Each call is at `lock` (about to take postsMutex), `lookup`, `delete`   *)
(* and `unlock` (inside the critical section), `noactive` (about to reply  *)
(* that there is no post), `post` (in the loop over the platforms) or      *)
(* `done`.                                                                 *)
(***************************************************************************)

Senders == {"s1", "s2"}

NoSender == [pc |-> "none", exists |-> FALSE, post |-> <<>>, todo |-> <<>>, replies |-> <<>>,
             text |-> <<>>, langs |-> <<>>]
NewSender == [NoSender EXCEPT !.pc = "lock"]

\* a variant of CanLock for a mutex that never blocks
CanLockAlways(mu) == TRUE

\* sync.Mutex.Lock returns only when the mutex is free
CanLock(mu) == mu = ""

\* p.postsMutex.Lock()
SendLock(t) ==
    /\ sender[t].pc = "lock"
    /\ CanLock(postsMutex)
    /\ postsMutex' = t
    /\ sender' = [sender EXCEPT ![t].pc = "lookup"]
    /\ UNCHANGED <<schedVars, callVars, regVars, authVars, outbox, postVars, published,
                  botVars, parsed>>

\* post, exists := p.posts[userID]
SendLookup(t) ==
    /\ sender[t].pc = "lookup"
    /\ sender' = [sender EXCEPT ![t].exists = HasDraft(posts, TheUser),
                                ![t].post = IF HasDraft(posts, TheUser) THEN posts[TheUser] ELSE <<>>,
                                ![t].pc = IF HasDraft(posts, TheUser) THEN "delete" ELSE "unlock"]
    /\ UNCHANGED <<schedVars, callVars, regVars, authVars, outbox, postVars, postsMutex, published,
                  botVars, parsed>>

\* delete(p.posts, userID)
SendDelete(t) ==
    /\ sender[t].pc = "delete"
    /\ posts' = DeleteDraft(posts, TheUser)
    /\ sender' = [sender EXCEPT ![t].pc = "unlock"]
    /\ UNCHANGED <<schedVars, callVars, regVars, authVars, outbox, postCalls, postsMutex, published,
                  botVars, parsed>>

\* p.postsMutex.Unlock(), then the test of exists; the iteration order of the
\* platforms map is any
SendUnlock(t) ==
    /\ sender[t].pc = "unlock"
    /\ postsMutex' = ""
    /\ IF sender[t].exists
       THEN \E order \in PlatformOrders :
                sender' = [sender EXCEPT ![t].pc = "post", ![t].todo = order]
       ELSE sender' = [sender EXCEPT ![t].pc = "noactive"]
    /\ UNCHANGED <<schedVars, callVars, regVars, authVars, outbox, postVars, published,
                  botVars, parsed>>

\* the reply of a call that found no draft
SendNoActive(t) ==
    /\ sender[t].pc = "noactive"
    /\ sender' = [sender EXCEPT ![t].pc = "done",
                                ![t].replies = Append(@, <<"No active post to send.">>)]
    /\ UNCHANGED <<schedVars, callVars, regVars, authVars, outbox, postVars, postsMutex, published,
                  botVars, parsed>>

\* one iteration of the loop over the platforms: Post and the notification
SendPost(t) ==
    /\ sender[t].pc = "post"
    /\ LET pname == Head(sender[t].todo)
           rest == Tail(sender[t].todo)
       IN  \E ok \in BOOLEAN :
             /\ published' = Append(published, [by |-> t, platform |-> pname,
                                                post |-> sender[t].post, ok |-> ok])
             /\ sender' = [sender EXCEPT
                    ![t].todo = rest,
                    ![t].replies = Append(@, IF ok THEN <<"Post sent to ", pname>> \o PostURL(pname)
                                             ELSE <<"Post Not sent to ", pname>> \o PostErr),
                    ![t].pc = IF rest = <<>> THEN "done" ELSE "post"]
    /\ UNCHANGED <<schedVars, callVars, regVars, authVars, outbox, postVars, postsMutex,
                  botVars, parsed>>

----------------------------------------------------------------------------
(* PostingFlow.newCommandHandler called concurrently for one user          *)
(*                                                                         *)
(* Each call is at `new_args` (parsing its message), `new_lock` (about to  *)
(* take postsMutex), `new_check`, `new_create` and `new_reply` (inside the *)
(* critical section, which the deferred Unlock ends after the reply),      *)
(* `new_unlock` or `done`.                                                 *)
(***************************************************************************)

\* _, args, err := message.AsCommand(...); kv, positional := argsIntoMaps(args)
\* and the choice of langs
NewArgs(t) ==
    /\ sender[t].pc = "new_args"
    /\ LET args == AsCommand(NewMessage(1, sender[t].text, <<>>)).args
           kv == argsIntoMaps(args).argMap
           positional == argsIntoMaps(args).remainingArgs
           langs == IF <<"langs">> \in DOMAIN kv THEN Split(kv[<<"langs">>], ",")
                    ELSE IF Len(positional) > 0 THEN Split(positional[1], ",")
                    ELSE <<>>
       IN  sender' = [sender EXCEPT ![t].langs = langs, ![t].pc = "new_lock"]
    /\ UNCHANGED <<schedVars, callVars, regVars, authVars, outbox, postVars, postsMutex, published,
                  botVars, parsed>>

\* p.postsMutex.Lock()
NewLock(t) ==
    /\ sender[t].pc = "new_lock"
    /\ CanLock(postsMutex)
    /\ postsMutex' = t
    /\ sender' = [sender EXCEPT ![t].pc = "new_check"]
    /\ UNCHANGED <<schedVars, callVars, regVars, authVars, outbox, postVars, published,
                  botVars, parsed>>

\* _, exists := p.posts[userID]
NewCheck(t) ==
    /\ sender[t].pc = "new_check"
    /\ sender' = [sender EXCEPT ![t].exists = HasDraft(posts, TheUser),
                                ![t].pc = IF HasDraft(posts, TheUser) THEN "new_reply"
                                          ELSE "new_create"]
    /\ UNCHANGED <<schedVars, callVars, regVars, authVars, outbox, postVars, postsMutex, published,
                  botVars, parsed>>

\* p.posts[userID] = &MicroblogPost{Langs: langs}
NewCreate(t) ==
    /\ sender[t].pc = "new_create"
    /\ posts' = Bind(posts, TheUser, [Text |-> <<>>, Images |-> <<>>, Langs |-> sender[t].langs])
    /\ sender' = [sender EXCEPT ![t].pc = "new_reply"]
    /\ UNCHANGED <<schedVars, callVars, regVars, authVars, outbox, postCalls, postsMutex, published,
                  botVars, parsed>>

\* messenger.SendMessage of the reply of the branch taken
NewReply(t) ==
    /\ sender[t].pc = "new_reply"
    /\ sender' = [sender EXCEPT
           ![t].replies = Append(@, IF sender[t].exists THEN <<"You already have an active post.">>
                                    ELSE <<"Started a new post.">>),
           ![t].pc = "new_unlock"]
    /\ UNCHANGED <<schedVars, callVars, regVars, authVars, outbox, postVars, postsMutex, published,
                  botVars, parsed>>

\* the deferred p.postsMutex.Unlock() as the call returns
NewUnlock(t) ==
    /\ sender[t].pc = "new_unlock"
    /\ postsMutex' = ""
    /\ sender' = [sender EXCEPT ![t].pc = "done"]
    /\ UNCHANGED <<schedVars, callVars, regVars, authVars, outbox, postVars, published,
                  botVars, parsed>>

----------------------------------------------------------------------------
(* Bot.defaultHandler: the callback the transport runs for each update     *)
(*                                                                         *)
(* The updates of one user are numbered in delivery order.  Each is handed *)
(* to its own run of the callback, which is at `queued` (not delivered     *)
(* yet), `lookup` (about to read flowSchedulers), `factory`, `store`       *)
(* (about to write flowSchedulers), `call` (about to call HandleMessage),  *)
(* `handle` (inside HandleMessage) or `done`.  The callback takes no lock. *)
(***************************************************************************)

Updates == 1..MaxUpdates

NoUpdate == [pc |-> "queued", sched |-> 0]

\* the transport hands the next update to a run of the callback
BotDeliver(d) ==
    /\ ~botFatal
    /\ updates[d].pc = "queued"
    /\ \A e \in Updates : e < d => updates[e].pc # "queued"
    /\ updates' = [updates EXCEPT ![d].pc = "lookup"]
    /\ UNCHANGED <<schedVars, callVars, regVars, authVars, outbox, postVars, sendVars,
                  flowSchedulers, handling, botFatal, parsed>>

\* var sched = tb.flowSchedulers[message.UserID]
BotLookup(d) ==
    /\ ~botFatal
    /\ updates[d].pc = "lookup"
    /\ updates' = [updates EXCEPT ![d].sched = flowSchedulers,
                                  ![d].pc = IF flowSchedulers = 0 THEN "factory" ELSE "call"]
    /\ UNCHANGED <<schedVars, callVars, regVars, authVars, outbox, postVars, sendVars,
                  flowSchedulers, handling, botFatal, parsed>>

\* sched, err = tb.flowSchedulerFactory(message.UserID): a new scheduler,
\* named after the update whose callback made it
BotFactory(d) ==
    /\ ~botFatal
    /\ updates[d].pc = "factory"
    /\ updates' = [updates EXCEPT ![d].sched = d, ![d].pc = "store"]
    /\ UNCHANGED <<schedVars, callVars, regVars, authVars, outbox, postVars, sendVars,
                  flowSchedulers, handling, botFatal, parsed>>

\* tb.flowSchedulers[message.UserID] = sched
BotStore(d) ==
    /\ ~botFatal
    /\ updates[d].pc = "store"
    /\ flowSchedulers' = updates[d].sched
    /\ updates' = [updates EXCEPT ![d].pc = "call"]
    /\ UNCHANGED <<schedVars, callVars, regVars, authVars, outbox, postVars, sendVars,
                  handling, botFatal, parsed>>

\* sched.HandleMessage(ctx, message, tb) is entered
BotCall(d) ==
    /\ ~botFatal
    /\ updates[d].pc = "call"
    /\ updates' = [updates EXCEPT ![d].pc = "handle"]
    /\ handling' = Append(handling, d)
    /\ UNCHANGED <<schedVars, callVars, regVars, authVars, outbox, postVars, sendVars,
                  flowSchedulers, botFatal, parsed>>

\* sched.HandleMessage returns and the callback ends
BotReturn(d) ==
    /\ ~botFatal
    /\ updates[d].pc = "handle"
    /\ updates' = [updates EXCEPT ![d].pc = "done"]
    /\ UNCHANGED <<schedVars, callVars, regVars, authVars, outbox, postVars, sendVars,
                  flowSchedulers, handling, botFatal, parsed>>

\* a write of the map while another callback reads or writes it is a data
\* race: besides the interleavings above, the runtime may end the process
BotMapRace ==
    /\ ~botFatal
    /\ \E d, e \in Updates :
         d # e /\ updates[d].pc = "store" /\ updates[e].pc \in {"lookup", "store"}
    /\ botFatal' = TRUE
    /\ UNCHANGED <<schedVars, callVars, regVars, authVars, outbox, postVars, sendVars,
                  updates, flowSchedulers, handling, parsed>>

----------------------------------------------------------------------------
(* The program: one user's scheduler as the factory builds it *)

Register3(fs, f, name, commands) ==
    LET r == RegisterFlowEffect(fs.flows, fs.flowCommandEntryPoints, f, name, commands)
    IN  [flows |-> r.flows, flowCommandEntryPoints |-> r.entry, currentFlow |-> fs.currentFlow]

\* the SchedulerFactoryFN of main
FactoryScheduler ==
    Register3(Register3(Register3(NewScheduler,
        "maf", "mastodon_auth", <<Cmd("mastodon_auth")>>),
        "bskyAF", "bluesky_auth", <<Cmd("bluesky_auth")>>),
        "posting", "microblog_post", <<Cmd("new")>>)

TheImage == [Data |-> "bytes", Caption |-> "caption"]

\* inbound messages: <<text, images>>
Inbound ==
    {<<Cmd(w), <<>>>> : w \in {"mastodon_auth", "bluesky_auth", "new", "send", "cancel", "foo"}}
    \cup {<<<<"a">>, <<>>>>, <<<<>>, <<>>>>, <<<<>>, <<TheImage>>>>}

\* nothing has run yet, whatever the scheduler and the input of AsCommand
InitQuietBut ==
    /\ hpc = "idle"
    /\ hres = Nil
    /\ call = NoCall
    /\ msgCount = 0
    /\ dialogue = NoDialogue
    /\ reg = NoReg
    /\ regCount = 0
    /\ ctxDone = FALSE
    /\ authorizationChan = [a \in AuthFlows |-> 0]
    /\ chanCount = 0
    /\ chanClosed = [a \in AuthFlows |-> FALSE]
    /\ task = [a \in AuthFlows |-> NoTask]
    /\ hgot = <<>>
    /\ outbox = <<>>
    /\ taskWrote = <<>>
    /\ taskRead = <<>>
    /\ userGot = <<>>
    /\ turn = [a \in AuthFlows |-> "none"]
    /\ chanOps = [a \in AuthFlows |-> 0]
    /\ posts = NoPosts
    /\ postCalls = <<>>
    /\ sender = [t \in Senders |-> NoSender]
    /\ postsMutex = ""
    /\ published = <<>>
    /\ updates = [d \in Updates |-> NoUpdate]
    /\ flowSchedulers = 0
    /\ handling = <<>>
    /\ botFatal = FALSE

InitQuiet ==
    /\ InitQuietBut
    /\ parsed = NotParsed

Init ==
    /\ flows = FactoryScheduler.flows
    /\ flowCommandEntryPoints = FactoryScheduler.flowCommandEntryPoints
    /\ currentFlow = FactoryScheduler.currentFlow
    /\ cfg \in {[maf |-> BaseConfig, bskyAF |-> c] : c \in {EmptyBskyConfig, PartialBskyConfig, StoredBskyConfig}}
    /\ InitQuiet

Next ==
    \/ \E i \in Inbound : msgCount < MaxMsgs /\ SchedulerHandleMessage(i[1], i[2])
    \/ SchedulerReturn
    \/ AuthorizerStart
    \/ AuthorizerHandleMessage
    \/ AuthorizerSend
    \/ AuthorizerReceive
    \/ AuthorizerReply
    \/ PostingHandleMessage
    \/ \E a \in AuthFlows : TaskStart(a)
    \/ \E a \in AuthFlows : TaskSend(a)
    \/ \E a \in AuthFlows : TaskReceive(a)
    \/ \E a \in AuthFlows : TaskWork(a)
    \/ \E a \in AuthFlows : TaskClose(a)
    \/ Cancel

Spec == Init /\ [][Next]_vars

----------------------------------------------------------------------------
(* The scheduler as a library: any registrations, any flows *)

RegNames == {"a", "b"}
RegCommands == {Cmd("x"), Cmd("y")}
RegCommandLists == UNION {[1..n -> RegCommands] : n \in 0..MaxCmdList}
RegTexts == RegCommands \cup {<<"/", "x", " ", "arg">>, <<"hi">>}

InitReg ==
    /\ flows = NewScheduler.flows
    /\ flowCommandEntryPoints = NewScheduler.flowCommandEntryPoints
    /\ currentFlow = NewScheduler.currentFlow
    /\ cfg = [maf |-> BaseConfig, bskyAF |-> EmptyBskyConfig]
    /\ InitQuiet

NextReg ==
    \/ \E f \in StubFlows, name \in RegNames, commands \in RegCommandLists :
           regCount < MaxRegs /\ RegisterFlow(f, name, commands)
    \/ \E text \in RegTexts : msgCount < MaxRegMsgs /\ SchedulerHandleMessage(text, <<>>)
    \/ StubFlowRun
    \/ SchedulerReturn

SpecReg == InitReg /\ [][NextReg]_vars

----------------------------------------------------------------------------
(* The posting flow alone: the program's scheduler, posting messages only *)

TheLangs == <<"langs", "=", "en", ",", "es">>
\* the form the README gives: /new [lang=es | es]
TheLang == <<"lang", "=", "en", ",", "es">>

\* inbound messages: <<text, images>>
PostInbound ==
    {<<Cmd(w), <<>>>> : w \in {"new", "send", "cancel", "foo"}}
    \cup {<<Cmd("new") \o <<" ">> \o TheLangs, <<>>>>,
          <<Cmd("new") \o <<" ">> \o TheLang, <<>>>>,
          <<Cmd("new") \o <<" ", "pt">>, <<>>>>,
          <<<<"a">>, <<>>>>, <<<<"b">>, <<>>>>, <<<<>>, <<>>>>, <<<<>>, <<TheImage>>>>}

InitPost ==
    /\ flows = FactoryScheduler.flows
    /\ flowCommandEntryPoints = FactoryScheduler.flowCommandEntryPoints
    /\ currentFlow = FactoryScheduler.currentFlow
    /\ cfg = [maf |-> BaseConfig, bskyAF |-> StoredBskyConfig]
    /\ InitQuiet

NextPost ==
    \/ \E i \in PostInbound : msgCount < MaxPostMsgs /\ SchedulerHandleMessage(i[1], i[2])
    \/ PostingHandleMessage
    \/ SchedulerReturn

SpecPost == InitPost /\ [][NextPost]_vars

----------------------------------------------------------------------------
(* Two /send calls of one user racing for one draft *)

TheDrafts ==
    {[Text |-> <<"a">>, Images |-> <<>>, Langs |-> <<>>],
     [Text |-> <<"a", "\n", "b">>, Images |-> <<NewBlogImage("bytes", "caption")>>,
      Langs |-> <<<<"en">>>>]}

\* the posting flow is active and holds a draft; two calls are about to start
InitSend ==
    /\ flows = FactoryScheduler.flows
    /\ flowCommandEntryPoints = FactoryScheduler.flowCommandEntryPoints
    /\ currentFlow = "microblog_post"
    /\ cfg = [maf |-> BaseConfig, bskyAF |-> StoredBskyConfig]
    /\ hpc = "idle"
    /\ hres = Nil
    /\ call = NoCall
    /\ msgCount = 0
    /\ dialogue = OffDialogue
    /\ reg = NoReg
    /\ regCount = 0
    /\ ctxDone = FALSE
    /\ authorizationChan = [a \in AuthFlows |-> 0]
    /\ chanCount = 0
    /\ chanClosed = [a \in AuthFlows |-> FALSE]
    /\ task = [a \in AuthFlows |-> NoTask]
    /\ hgot = <<>>
    /\ outbox = <<>>
    /\ taskWrote = <<>>
    /\ taskRead = <<>>
    /\ userGot = <<>>
    /\ turn = [a \in AuthFlows |-> "none"]
    /\ chanOps = [a \in AuthFlows |-> 0]
    /\ \E d \in TheDrafts : posts = Bind(NoPosts, TheUser, d)
    /\ postCalls = <<>>
    /\ sender = [t \in Senders |-> NewSender]
    /\ postsMutex = ""
    /\ published = <<>>
    /\ updates = [d \in Updates |-> NoUpdate]
    /\ flowSchedulers = 0
    /\ handling = <<>>
    /\ botFatal = FALSE
    /\ parsed = NotParsed

NextSend ==
    \/ \E t \in Senders : SendLock(t)
    \/ \E t \in Senders : SendLookup(t)
    \/ \E t \in Senders : SendDelete(t)
    \/ \E t \in Senders : SendUnlock(t)
    \/ \E t \in Senders : SendNoActive(t)
    \/ \E t \in Senders : SendPost(t)

SpecSend == InitSend /\ [][NextSend]_vars

----------------------------------------------------------------------------
(* Two /new calls of one user racing while there is no draft *)

NewTexts ==
    {Cmd("new"), Cmd("new") \o <<" ", "pt">>, Cmd("new") \o <<" ">> \o TheLangs,
     Cmd("new") \o <<" ">> \o TheLang}

\* the posting flow holds no draft; two calls are about to start
InitNew ==
    /\ flows = FactoryScheduler.flows
    /\ flowCommandEntryPoints = FactoryScheduler.flowCommandEntryPoints
    /\ currentFlow = "microblog_post"
    /\ cfg = [maf |-> BaseConfig, bskyAF |-> StoredBskyConfig]
    /\ hpc = "idle"
    /\ hres = Nil
    /\ call = NoCall
    /\ msgCount = 0
    /\ dialogue = OffDialogue
    /\ reg = NoReg
    /\ regCount = 0
    /\ ctxDone = FALSE
    /\ authorizationChan = [a \in AuthFlows |-> 0]
    /\ chanCount = 0
    /\ chanClosed = [a \in AuthFlows |-> FALSE]
    /\ task = [a \in AuthFlows |-> NoTask]
    /\ hgot = <<>>
    /\ outbox = <<>>
    /\ taskWrote = <<>>
    /\ taskRead = <<>>
    /\ userGot = <<>>
    /\ turn = [a \in AuthFlows |-> "none"]
    /\ chanOps = [a \in AuthFlows |-> 0]
    /\ posts = NoPosts
    /\ postCalls = <<>>
    /\ \E texts \in [Senders -> NewTexts] :
         sender = [t \in Senders |-> [NoSender EXCEPT !.pc = "new_args", !.text = texts[t]]]
    /\ postsMutex = ""
    /\ published = <<>>
    /\ updates = [d \in Updates |-> NoUpdate]
    /\ flowSchedulers = 0
    /\ handling = <<>>
    /\ botFatal = FALSE
    /\ parsed = NotParsed

NextNew ==
    \/ \E t \in Senders : NewArgs(t)
    \/ \E t \in Senders : NewLock(t)
    \/ \E t \in Senders : NewCheck(t)
    \/ \E t \in Senders : NewCreate(t)
    \/ \E t \in Senders : NewReply(t)
    \/ \E t \in Senders : NewUnlock(t)

SpecNew == InitNew /\ [][NextNew]_vars

----------------------------------------------------------------------------
(* The transport binding: the updates of one user, each in its callback *)

InitBot ==
    /\ flows = FactoryScheduler.flows
    /\ flowCommandEntryPoints = FactoryScheduler.flowCommandEntryPoints
    /\ currentFlow = FactoryScheduler.currentFlow
    /\ cfg = [maf |-> BaseConfig, bskyAF |-> StoredBskyConfig]
    /\ InitQuiet

NextBot ==
    \/ \E d \in Updates : BotDeliver(d)
    \/ \E d \in Updates : BotLookup(d)
    \/ \E d \in Updates : BotFactory(d)
    \/ \E d \in Updates : BotStore(d)
    \/ \E d \in Updates : BotCall(d)
    \/ \E d \in Updates : BotReturn(d)
    \/ BotMapRace

SpecBot == InitBot /\ [][NextBot]_vars

----------------------------------------------------------------------------
(* Message.AsCommand alone, on any text *)

TextSymbols == {"/", " ", "a", "b"}

RECURSIVE TextsUpTo(_)
TextsUpTo(n) ==
    IF n = 0 THEN {<<>>}
    ELSE LET shorter == TextsUpTo(n - 1)
         IN  shorter \cup {Append(t, c) : t \in shorter, c \in TextSymbols}

InitParse ==
    /\ flows = NewScheduler.flows
    /\ flowCommandEntryPoints = NewScheduler.flowCommandEntryPoints
    /\ currentFlow = NewScheduler.currentFlow
    /\ cfg = [maf |-> BaseConfig, bskyAF |-> EmptyBskyConfig]
    /\ InitQuietBut
    /\ \E t \in TextsUpTo(MaxTextLen) :
         parsed = [NotParsed EXCEPT !.m = NewMessage(1, t, <<>>)]

NextParse == ParseAsCommand

SpecParse == InitParse /\ [][NextParse]_vars

----------------------------------------------------------------------------
(* Properties *)

IsSentinel(err) == ErrorsIs(err, ErrFlowFinished)

\* the last message is an entry command of a flow other than the one that was active
OtherEntryCommand ==
    /\ call.pre # ""
    /\ IsCommand(call.msg)
    /\ AsCommand(call.msg).command \in DOMAIN flowCommandEntryPoints
    /\ flowCommandEntryPoints[AsCommand(call.msg).command] # call.pre

\* C1: at most one flow is active, and only the active flow runs; while a flow
\* is active, an entry command of another registered flow goes to the active
\* flow's HandleMessage, starts nothing, and leaves the active flow in place
\* unless the active flow reports the terminal sentinel.
C1_OneActiveFlow ==
    /\ currentFlow = "" \/ currentFlow \in DOMAIN flows
    /\ hpc \notin {"idle", "panicked"} => call.flow = currentFlow
    /\ OtherEntryCommand =>
         /\ call.flow = call.pre
         /\ call.method = "HandleMessage"
         /\ \/ currentFlow = call.pre
            \/ currentFlow = "" /\ call.done /\ IsSentinel(call.flowRes)

C1_Witness ==
    /\ OtherEntryCommand
    /\ call.done
    /\ call.pre = "microblog_post"
    /\ call.msg.Text = Cmd("bluesky_auth")
    /\ currentFlow = "microblog_post"
    /\ Len(outbox) = 1

\* C2: when a flow is active and its HandleMessage returns the terminal
\* sentinel, plain or wrapped, the scheduler clears the active flow and
\* returns nil.
C2_SentinelClears ==
    (call.done /\ call.method = "HandleMessage" /\ IsSentinel(call.flowRes))
        => (currentFlow = "" /\ call.ret = Nil)

C2_Witness ==
    /\ call.done
    /\ call.method = "HandleMessage"
    /\ call.pre \in DOMAIN flows
    /\ call.flowRes = Wrap("inner", ErrFlowFinished)
    /\ currentFlow = ""
    /\ call.ret = Nil

\* C3: the scheduler never returns an error that is or wraps the terminal
\* sentinel, and whenever a flow reports the sentinel, from HandleMessage or
\* from Start, the call ends with no active flow.
C3_SentinelConsumed ==
    call.done =>
        /\ ~IsSentinel(call.ret)
        /\ IsSentinel(call.flowRes) => currentFlow = ""

\* the texts of the answers the tasks read
RECURSIVE Texts(_)
Texts(reads) == IF reads = <<>> THEN <<>> ELSE <<Head(reads).text>> \o Texts(Tail(reads))

\* the conversation so far is the entry command of an authorization flow and
\* then answers only, every call has returned, the task was started, wrote at
\* least one prompt, and neither a cancellation nor a crash happened
Handshake ==
    /\ dialogue.on
    /\ dialogue.flow # ""
    /\ FlowKind(FlowOf(dialogue.flow)) = "auth"
    /\ call.done
    /\ ~ctxDone
    /\ ~Crashed
    /\ chanCount = 1
    /\ Len(taskWrote) >= 1

\* C4: for a task that writes prompts P1..Pn, awaiting an answer after each,
\* and then closes the channel, and a user who sends the entry command and
\* then answers A1..: after k answers the user was sent exactly the prompts
\* written, in order, and the task read exactly A1..Ak; the call handling An
\* yields the terminal sentinel and leaves the scheduler idle; after that
\* the flow attempts no further send or receive on the channel (it made
\* n sends and n + 1 receives).
C4_Handshake ==
    Handshake =>
        LET a == FlowOf(dialogue.flow)
            k == Len(dialogue.answers)
            n == Len(taskWrote)
        IN  /\ userGot = taskWrote
            /\ IF currentFlow = dialogue.flow
               THEN /\ n = k + 1
                    /\ Texts(taskRead) = dialogue.answers
                    /\ ~chanClosed[a]
                    /\ chanOps[a] = 2 * k + 1
               ELSE /\ currentFlow = ""
                    /\ k >= n
                    /\ Texts(taskRead) = SubSeq(dialogue.answers, 1, n)
                    /\ chanClosed[a]
                    /\ task[a].pc = "closed"
                    /\ chanOps[a] = 2 * n + 1
                    /\ k = n => (call.flowRes = ErrFlowFinished /\ call.ret = Nil)

C4_Witness ==
    /\ Handshake
    /\ Len(dialogue.answers) = 2
    /\ Len(taskWrote) = 2
    /\ Len(taskRead) = 2
    /\ currentFlow = ""
    /\ call.flowRes = ErrFlowFinished
    /\ chanOps[FlowOf(dialogue.flow)] = 5

\* C5: the flow sends into the authorization channel only while a prompt
\* delivered to the user is unanswered, and receives from it only right
\* after sending an answer or on the first call of the attempt (Start).
C5_HalfDuplex ==
    /\ hpc \in {"send", "send_blocked"} => turn[hflow] = "prompted"
    /\ hpc \in {"recv", "recv_blocked"} => (call.sentAnswer \/ call.method = "Start")

\* C6: every prompt a task succeeds in writing is handed to the messenger as
\* a reply, verbatim, once and in the order written (the one just received
\* is the next to be sent), and every answer a task reads is the text of a
\* distinct inbound message that is neither a command nor empty, in the
\* order the messages were handled.
C6_NothingLost ==
    /\ taskWrote = userGot \o (IF hpc = "reply" THEN <<hgot>> ELSE <<>>)
    /\ hpc = "return" /\ Len(outbox) > 0 /\ FlowKind(hflow) = "auth"
         => outbox = <<[msg |-> Reply(call.msg, userGot[Len(userGot)]),
                        ok |-> outbox[1].ok]>>
    /\ \A i \in 1..Len(taskRead) :
         /\ taskRead[i].text = taskRead[i].from.Text
         /\ ~IsCommand(taskRead[i].from)
         /\ ~IsEmpty(taskRead[i].from)
         /\ taskRead[i].from.MsgID \in 1..msgCount
    /\ \A i, j \in 1..Len(taskRead) :
         i < j => taskRead[i].from.MsgID < taskRead[j].from.MsgID

C6_Witness ==
    /\ ctxDone
    /\ Len(taskRead) = 2
    /\ Len(userGot) = 2
    /\ taskRead[2].from.Images # <<>>
    /\ hpc = "idle"

\* C7: when the context is cancelled while AuthorizerFlow.HandleMessage is
\* parked sending an answer or waiting for a prompt (or is found cancelled
\* when the select is reached), the call sends no reply, returns nil, and
\* the flow stays the active one.
C7_CancelIsSilent ==
    call.ctxAbort # "" =>
        /\ outbox = <<>>
        /\ currentFlow = call.flow
        /\ call.flow # ""
        /\ call.done => call.ret = Nil

C7_Witness ==
    /\ call.done
    /\ call.ctxAbort = "blocked"
    /\ call.sentAnswer
    /\ call.ret = Nil
    /\ currentFlow = call.flow
    /\ FlowKind(FlowOf(currentFlow)) = "auth"

\* C8: the current flow name is empty or the name of a registered flow.
C8_CurrentFlowRegistered ==
    currentFlow = "" \/ currentFlow \in DOMAIN flows

\* C9: whenever RegisterFlow returns an error, the flows registry and the
\* command map are as they were before the call.
C9_RegisterAllOrNothing ==
    reg.err # Nil =>
        /\ flows = reg.prevFlows
        /\ flowCommandEntryPoints = reg.prevEntry

\* C10: RegisterFlow with a name that is already registered fails with
\* ErrFlowAlreadyRegistered and changes neither the registered instance nor
\* any command binding; none of its commands becomes bound.
C10_DuplicateName ==
    regCount > 0 =>
        /\ reg.name \in DOMAIN reg.prevFlows
             => /\ ErrorsIs(reg.err, ErrFlowAlreadyRegistered)
                /\ flows = reg.prevFlows
                /\ flowCommandEntryPoints = reg.prevEntry
        /\ ErrorsIs(reg.err, ErrFlowAlreadyRegistered) => reg.name \in DOMAIN reg.prevFlows

C10_Witness ==
    /\ regCount > 0
    /\ ErrorsIs(reg.err, ErrFlowAlreadyRegistered)
    /\ reg.f # reg.prevFlows[reg.name]
    /\ \E i \in 1..Len(reg.commands) : reg.commands[i] \notin DOMAIN flowCommandEntryPoints
    /\ flows[reg.name] = reg.prevFlows[reg.name]

\* a command of the last RegisterFlow call was bound to another flow before the call
RegConflict ==
    \E i \in 1..Len(reg.commands) :
        /\ reg.commands[i] \in DOMAIN reg.prevEntry
        /\ reg.prevEntry[reg.commands[i]] # reg.name

\* C11: RegisterFlow with a command already bound to a different flow fails,
\* with ErrFlowTriggerConflict when the name itself is free (a taken name
\* fails first, with ErrFlowAlreadyRegistered), and every command bound
\* before a RegisterFlow call maps to the same flow after it.
C11_BindingsKept ==
    regCount > 0 =>
        /\ RegConflict => reg.err # Nil
        /\ (RegConflict /\ reg.name \notin DOMAIN reg.prevFlows)
             => ErrorsIs(reg.err, ErrFlowTriggerConflict)
        /\ \A c \in DOMAIN reg.prevEntry :
             /\ c \in DOMAIN flowCommandEntryPoints
             /\ flowCommandEntryPoints[c] = reg.prevEntry[c]

C11_Witness ==
    /\ regCount > 0
    /\ RegConflict
    /\ reg.name \notin DOMAIN reg.prevFlows
    /\ Len(reg.commands) = 2
    /\ reg.commands[1] \notin DOMAIN reg.prevEntry
    /\ ErrorsIs(reg.err, ErrFlowTriggerConflict)
    /\ flowCommandEntryPoints[reg.commands[2]] = reg.prevEntry[reg.commands[2]]

\* C12: when the active flow's HandleMessage returns an error that is not
\* the terminal sentinel, the scheduler returns an error wrapping it and the
\* active flow stays the same.
C12_OtherErrorKeepsFlow ==
    (call.done /\ call.method = "HandleMessage" /\ call.flowRes # Nil
        /\ ~IsSentinel(call.flowRes))
        => /\ call.ret = Wrap("handling message", call.flowRes)
           /\ ErrorsIs(call.ret, call.flowRes)
           /\ call.pre # ""
           /\ currentFlow = call.pre

C12_Witness ==
    /\ call.done
    /\ call.method = "HandleMessage"
    /\ call.flowRes = <<"boom">>
    /\ call.ret = <<"handling message", "boom">>
    /\ currentFlow = call.pre
    /\ currentFlow \in DOMAIN flows

\* the step is the arrival of a message at an idle scheduler
IdleArrival == msgCount' = msgCount + 1 /\ currentFlow = ""

\* the message that arrives is a command whose token is bound to a registered flow
ArrivesEntryCommand ==
    /\ IsCommand(call'.msg)
    /\ AsCommand(call'.msg).command \in DOMAIN flowCommandEntryPoints
    /\ flowCommandEntryPoints[AsCommand(call'.msg).command] \in DOMAIN flows

C13_Step ==
    /\ (IdleArrival /\ ArrivesEntryCommand) =>
         LET name == flowCommandEntryPoints[AsCommand(call'.msg).command]
         IN  /\ currentFlow' = name
             /\ call'.flow = name
             /\ call'.method = "Start"
             /\ call'.msg.MsgID = msgCount'
             /\ hpc' = EntryPc(flows[name], "Start")
    /\ msgCount' = msgCount =>
         /\ call'.flow = call.flow
         /\ call'.method = call.method
         /\ call'.msg = call.msg

\* C13: a message arriving at an idle scheduler whose command token is a
\* registered entry command makes the flow registered for it the active flow
\* and enters that flow's Start with that message; until the next message
\* arrives no other flow method is invoked.
C13_StartsRegisteredFlow == [][C13_Step]_vars

C13_Witness ==
    /\ call.done
    /\ call.pre = ""
    /\ call.method = "Start"
    /\ call.msg.Text = <<"/", "x", " ", "arg">>
    /\ call.flow = flowCommandEntryPoints[Cmd("x")]
    /\ currentFlow = call.flow
    /\ currentFlow \in DOMAIN flows

C14_Step ==
    (IdleArrival /\ (~IsCommand(call'.msg)
                       \/ AsCommand(call'.msg).command \notin DOMAIN flowCommandEntryPoints))
        => /\ call'.done
           /\ call'.ret = Nil
           /\ call'.flow = ""
           /\ call'.method = ""
           /\ hpc' = "idle"
           /\ outbox' = <<>>
           /\ currentFlow' = ""
           /\ UNCHANGED <<flows, flowCommandEntryPoints, posts, postCalls, authorizationChan, task>>

\* C14: a message arriving at an idle scheduler that is not a command, or
\* whose command is not an entry command, returns nil at once: no flow is
\* invoked, nothing is sent, the scheduler stays idle and the registry, the
\* command map and the flows' state are unchanged.
C14_IdleIgnores == [][C14_Step]_vars

C14_Witness ==
    /\ call.done
    /\ call.pre = ""
    /\ call.flow = ""
    /\ call.msg.Text = Cmd("send")
    /\ call.ret = Nil
    /\ currentFlow = ""
    /\ msgCount = 2

\* the step is PostingFlow.HandleMessage running on the command cmd
PostingRuns(cmd) ==
    /\ hpc = "post_hm"
    /\ hpc' = "return"
    /\ IsCommand(call.msg)
    /\ AsCommand(call.msg).command = cmd

\* the reply texts of a per-platform result
SentText(pname) == <<"Post sent to ", pname>> \o PostURL(pname)
NotSentText(pname) == <<"Post Not sent to ", pname>> \o PostErr

C15_Step ==
    (PostingRuns(Cmd("send")) /\ HasDraft(posts, call.msg.UserID)) =>
        /\ ~HasDraft(posts', call.msg.UserID)
        /\ Len(postCalls') = Cardinality(Platforms)
        /\ \A pname \in Platforms :
             \E i \in 1..Len(postCalls') :
                /\ postCalls'[i].platform = pname
                /\ postCalls'[i].post = posts[call.msg.UserID]
                /\ \A j \in 1..Len(postCalls') : postCalls'[j].platform = pname => j = i
        /\ Len(outbox') = Len(postCalls')
        /\ \A i \in 1..Len(postCalls') :
             outbox'[i].msg = Reply(call.msg, IF postCalls'[i].ok
                                              THEN SentText(postCalls'[i].platform)
                                              ELSE NotSentText(postCalls'[i].platform))

\* C15: /send with a draft, whatever each platform's Post and each
\* SendMessage returns: Post is called exactly once on every platform with
\* the draft, one result reply is handed to the messenger per platform
\* (success with the URL, or failure), and no draft is left for the user.
C15_SendPostsEverywhere == [][C15_Step]_vars

C15_Witness ==
    /\ hpc = "return"
    /\ call.msg.Text = Cmd("send")
    /\ Len(postCalls) = 2
    /\ ~postCalls[1].ok
    /\ postCalls[2].ok
    /\ postCalls[1].post.Text = <<"a">>
    /\ Len(outbox) = 2
    /\ outbox[2].msg.Text = SentText(postCalls[2].platform)
    /\ ~HasDraft(posts, TheUser)

\* C16: of two concurrent /send calls of one user with one draft, at most
\* one obtains the draft, each platform's Post is called at most once, with
\* that draft and by that call, and when both have ended exactly one has
\* published and the other has replied that there is no active post.
C16_OneSendWins ==
    /\ \A t, u \in Senders : (sender[t].exists /\ sender[u].exists) => t = u
    /\ \A i, j \in 1..Len(published) :
         published[i].platform = published[j].platform => i = j
    /\ \A i \in 1..Len(published) :
         /\ sender[published[i].by].exists
         /\ published[i].post = sender[published[i].by].post
    /\ (\A t \in Senders : sender[t].pc = "done") =>
         \E t \in Senders :
            /\ sender[t].exists
            /\ Len(sender[t].replies) = Cardinality(Platforms)
            /\ {published[i].platform : i \in 1..Len(published)} = Platforms
            /\ \A u \in Senders \ {t} :
                 sender[u].replies = <<<<"No active post to send.">>>>

C16_Witness ==
    /\ \A t \in Senders : sender[t].pc = "done"
    /\ sender["s2"].exists
    /\ sender["s1"].replies = <<<<"No active post to send.">>>>
    /\ Len(published) = 2
    /\ published[1].by = "s2"
    /\ ~HasDraft(posts, TheUser)

\* C17: /send with a draft returns an error if and only if the SendMessage
\* of at least one per-platform notification failed, be it the notification
\* of a success or of a failure.
C17_SendErrorsCombined ==
    (hpc = "return" /\ FlowKind(hflow) = "posting" /\ call.msg.Text = Cmd("send")
        /\ postCalls # <<>>)
        => ((hres # Nil) <=> (\E i \in 1..Len(outbox) : ~outbox[i].ok))

C18_Step ==
    PostingRuns(Cmd("new")) =>
        /\ postCalls' = <<>>
        /\ Len(outbox') = 1
        /\ outbox'[1].ok => hres' = Nil
        /\ IF HasDraft(posts, call.msg.UserID)
           THEN /\ posts' = posts
                /\ outbox'[1].msg = Reply(call.msg, <<"You already have an active post.">>)
           ELSE /\ HasDraft(posts', call.msg.UserID)
                /\ posts'[call.msg.UserID].Text = <<>>
                /\ posts'[call.msg.UserID].Images = <<>>
                /\ outbox'[1].msg = Reply(call.msg, <<"Started a new post.">>)

RECURSIVE BlogImages(_)
BlogImages(imgs) ==
    IF imgs = <<>> THEN <<>>
    ELSE <<[Data |-> Head(imgs).Data, AltText |-> Head(imgs).Caption]>> \o BlogImages(Tail(imgs))

C19_Step ==
    (hpc = "post_hm" /\ hpc' = "return" /\ ~IsCommand(call.msg)
        /\ HasDraft(posts, call.msg.UserID)) =>
        LET old == posts[call.msg.UserID]
            new == posts'[call.msg.UserID]
        IN  /\ HasDraft(posts', call.msg.UserID)
            /\ new.Text = IF call.msg.Text = <<>> THEN old.Text
                          ELSE IF old.Text = <<>> THEN call.msg.Text
                          ELSE old.Text \o <<"\n">> \o call.msg.Text
            /\ new.Images = old.Images \o BlogImages(call.msg.Images)
            /\ new.Langs = old.Langs
            /\ postCalls' = <<>>
            /\ (\A i \in 1..Len(outbox') : outbox'[i].ok) => hres' = Nil

C20_Step ==
    PostingRuns(Cmd("cancel")) =>
        /\ postCalls' = <<>>
        /\ Len(outbox') = 1
        /\ IF HasDraft(posts, call.msg.UserID)
           THEN /\ ~HasDraft(posts', call.msg.UserID)
                /\ outbox'[1].msg = Reply(call.msg, <<"Post canceled.">>)
           ELSE /\ posts' = posts
                /\ outbox'[1].msg = Reply(call.msg, <<"No active post to cancel.">>)

\* C20: /cancel with a draft removes it and replies that the post was
\* canceled; /cancel without a draft replies that there is nothing to
\* cancel and changes no draft; neither calls Post on any platform.
C20_CancelRemovesDraft == [][C20_Step]_vars

C20_Witness ==
    /\ hpc = "return"
    /\ call.msg.Text = Cmd("cancel")
    /\ posts = NoPosts
    /\ postCalls = <<>>
    /\ outbox = <<[msg |-> Reply(call.msg, <<"Post canceled.">>), ok |-> TRUE]>>

\* the step is PostingFlow.defaultHandler running on a message that has
\* neither text nor images while its user has a draft
C21_Step ==
    (hpc = "post_hm" /\ hpc' = "return" /\ IsEmpty(call.msg)
        /\ HasDraft(posts, call.msg.UserID)) =>
        /\ posts' = posts
        /\ Len(outbox') = 1
        /\ outbox'[1].msg = Reply(call.msg, <<"Received message, but no content was added.">>)

\* C21: while a draft exists, a message handled by the default handler that
\* appends nothing (no text and no images) is answered with the reply that
\* no content was added, and the draft stays as it was.
C21_EmptyAnswered == [][C21_Step]_vars

C22_Step ==
    (hpc = "post_hm" /\ hpc' = "return" /\ ~IsCommand(call.msg) /\ ~IsEmpty(call.msg)
        /\ ~HasDraft(posts, call.msg.UserID)) =>
        /\ posts' = posts
        /\ postCalls' = <<>>
        /\ Len(outbox') = 1
        /\ outbox'[1].msg =
               Reply(call.msg, <<"No active post. Use /new to start writing a new post.">>)

\* C22: content that is not a command (text or images), handled by
\* PostingFlow while its user has no draft, produces the reply that tells
\* the user to start a post with /new; no draft is created, and the content
\* goes neither into a draft nor to a platform.
C22_NoDraftNoStore == [][C22_Step]_vars

C22_Witness ==
    /\ hpc = "return"
    /\ call.pre = "microblog_post"
    /\ call.msg.Text = <<"a">>
    /\ posts = NoPosts
    /\ postCalls = <<>>
    /\ outbox = <<[msg |-> Reply(call.msg,
                                 <<"No active post. Use /new to start writing a new post.">>),
                   ok |-> TRUE]>>

\* the conditions a user can get out of alone: /send, /cancel or content
\* without a draft, /new with a draft, a command nothing answers to
UnknownCommand(m) ==
    /\ IsCommand(m)
    /\ AsCommand(m).command \notin
           (DOMAIN flowCommandEntryPoints) \cup {Cmd("send"), Cmd("cancel")}

Recoverable(m, ps) ==
    \/ /\ ~HasDraft(ps, m.UserID)
       /\ \/ IsCommand(m) /\ AsCommand(m).command \in {Cmd("send"), Cmd("cancel")}
          \/ ~IsCommand(m) /\ ~IsEmpty(m)
    \/ HasDraft(ps, m.UserID) /\ IsCommand(m) /\ AsCommand(m).command = Cmd("new")
    \/ UnknownCommand(m)

\* the reply PostingFlow gives in each of them
RecoverableReply(m, ps) ==
    IF IsCommand(m) /\ AsCommand(m).command = Cmd("new")
    THEN <<"You already have an active post.">>
    ELSE IF IsCommand(m) /\ AsCommand(m).command = Cmd("send")
    THEN <<"No active post to send.">>
    ELSE IF IsCommand(m) /\ AsCommand(m).command = Cmd("cancel")
    THEN <<"No active post to cancel.">>
    ELSE IF HasDraft(ps, m.UserID) THEN <<"Content added to your post">>
    ELSE <<"No active post. Use /new to start writing a new post.">>

\* the step is the scheduler returning at once on a message it has no flow for
SchedulerIgnores ==
    /\ hpc = "idle"
    /\ hpc' = "idle"
    /\ msgCount' = msgCount + 1

C23_AnyStateStep ==
    ((SchedulerIgnores \/ (hpc = "post_hm" /\ hpc' = "return"))
        /\ Recoverable(call'.msg, posts)) => Len(outbox') >= 1

\* C23 as stated: every message handled through the scheduler in a
\* recoverable condition gets at least one reply, be the scheduler Idle or
\* in a flow.
C23_AnyStateAnswered == [][C23_AnyStateStep]_vars

C23_Step ==
    /\ (hpc = "post_hm" /\ hpc' = "return" /\ Recoverable(call.msg, posts)) =>
           /\ Len(outbox') = 1
           /\ outbox'[1].msg = Reply(call.msg, RecoverableReply(call.msg, posts))
    /\ (SchedulerIgnores /\ Recoverable(call'.msg, posts)) =>
           /\ outbox' = <<>>
           /\ call'.ret = Nil
           /\ call'.pre = ""

\* C23: a message in a recoverable condition that reaches PostingFlow gets
\* exactly one reply, the one that describes its case (an unknown command is
\* treated as content); one that arrives while the scheduler is Idle reaches
\* no flow and gets no reply, and the scheduler returns nil.
C23_AnsweredInFlow == [][C23_Step]_vars

C23_Witness ==
    /\ hpc = "return"
    /\ call.pre = "microblog_post"
    /\ call.msg.Text = Cmd("foo")
    /\ posts = NoPosts
    /\ outbox = <<[msg |-> Reply(call.msg,
                                 <<"No active post. Use /new to start writing a new post.">>),
                   ok |-> TRUE]>>

\* the language tags of /new as documented: the value of lang=, else the
\* first positional argument, split on commas; none without arguments
DocumentedLangs(args) ==
    LET kv == argsIntoMaps(args).argMap
        positional == argsIntoMaps(args).remainingArgs
    IN  IF <<"lang">> \in DOMAIN kv THEN Split(kv[<<"lang">>], ",")
        ELSE IF Len(positional) > 0 THEN Split(positional[1], ",")
        ELSE <<>>

C24_Step ==
    (PostingRuns(Cmd("new")) /\ ~HasDraft(posts, call.msg.UserID)) =>
        /\ HasDraft(posts', call.msg.UserID)
        /\ posts'[call.msg.UserID].Langs = DocumentedLangs(AsCommand(call.msg).args)

\* C24: /new lang=X, or /new X, creates a draft whose language tags are X
\* split on commas, the keyword before the positional argument; /new alone
\* creates a draft without language tags.
C24_LangsParsed == [][C24_Step]_vars

\* C25: the messages of one user are handled strictly one after another in
\* delivery order: no two FlowScheduler.HandleMessage calls made by
\* Bot.defaultHandler for the user are in progress at the same time, and the
\* calls begin in the order of delivery, each update once.
C25_Sequential ==
    /\ \A d, e \in Updates :
         (updates[d].pc = "handle" /\ updates[e].pc = "handle") => d = e
    /\ \A i, j \in 1..Len(handling) : i < j => handling[i] < handling[j]

\* C26: every message PostingFlow or AuthorizerFlow hands to the Messenger
\* while handling the inbound message m carries m's transport, chat and
\* user, and m's message id as the id it replies to.
C26_RepliesDerived ==
    \A i \in 1..Len(outbox) :
        /\ outbox[i].msg.IM = call.msg.IM
        /\ outbox[i].msg.ChatID = call.msg.ChatID
        /\ outbox[i].msg.UserID = call.msg.UserID
        /\ outbox[i].msg.InReplyTo = call.msg.MsgID

C26_Witness ==
    /\ hpc = "return"
    /\ call.msg.Text = Cmd("send")
    /\ call.msg.MsgID = 3
    /\ call.msg.ChatID = TheChat + 1
    /\ Len(outbox) = 2
    /\ outbox[1].msg.InReplyTo = 3
    /\ outbox[2].msg.ChatID = TheChat + 1
    /\ outbox[1].msg.Text # outbox[2].msg.Text

\* tokens put together again with one space between them
RECURSIVE JoinSpace(_)
JoinSpace(tokens) ==
    IF tokens = <<>> THEN <<>>
    ELSE IF Len(tokens) = 1 THEN Head(tokens)
    ELSE Head(tokens) \o <<" ">> \o JoinSpace(Tail(tokens))

NoSpaceIn(token) == \A i \in 1..Len(token) : token[i] # " "

\* C27: Message.AsCommand with the default parser fails with ErrNotACommand
\* on a text that is empty or does not start with "/"; on a text that
\* starts with "/" it succeeds, the command is the first token and the
\* arguments are the tokens after it, in order, where the tokens are the
\* pieces of the text between single spaces (none after the command gives
\* an empty list); the message is as it was.
C27_AsCommand ==
    parsed.done =>
        LET text == parsed.m.Text
        IN  /\ parsed.m = NewMessage(1, text, <<>>)
            /\ IF text = <<>> \/ text[1] # "/"
               THEN /\ ErrorsIs(parsed.err, ErrNotACommand)
                    /\ parsed.command = <<>>
                    /\ parsed.args = <<>>
               ELSE /\ parsed.err = Nil
                    /\ NoSpaceIn(parsed.command)
                    /\ \A i \in 1..Len(parsed.args) : NoSpaceIn(parsed.args[i])
                    /\ JoinSpace(<<parsed.command>> \o parsed.args) = text

C27_Witness ==
    /\ parsed.done
    /\ parsed.m.Text = <<"/", "a", " ", "b">>
    /\ parsed.command = <<"/", "a">>
    /\ parsed.args = <<<<"b">>>>
    /\ parsed.err = Nil

StartedReply == <<<<"Started a new post.">>>>
AlreadyReply == <<<<"You already have an active post.">>>>

\* C28: of two /new calls of one user running at the same time with no
\* draft stored, exactly one creates the draft and replies that a post was
\* started, and the other replies that a post is already active; the draft
\* is the one the first made, never overwritten by the second.
C28_OneNewWins ==
    /\ \A t, u \in Senders :
         (sender[t].replies = StartedReply /\ sender[u].replies = StartedReply) => t = u
    /\ \A t \in Senders :
         sender[t].replies = StartedReply =>
             /\ HasDraft(posts, TheUser)
             /\ posts[TheUser] = [Text |-> <<>>, Images |-> <<>>, Langs |-> sender[t].langs]
    /\ (\A t \in Senders : sender[t].pc = "done") =>
           /\ \E t \in Senders : sender[t].replies = StartedReply
           /\ \A t \in Senders : sender[t].replies \in {StartedReply, AlreadyReply}

C28_Witness ==
    /\ \A t \in Senders : sender[t].pc = "done"
    /\ sender["s2"].replies = StartedReply
    /\ sender["s1"].replies = AlreadyReply
    /\ sender["s1"].langs = <<<<"pt">>>>
    /\ sender["s2"].langs = <<<<"en">>, <<"es">>>>
    /\ posts[TheUser].Langs = <<<<"en">>, <<"es">>>>

\* the step cancels the context while task a is parked in a select on its channel
CancelledWhileParked(a) ==
    /\ ~ctxDone
    /\ ctxDone'
    /\ task[a].pc \in {"send_blocked", "recv_blocked"}

C29_Step ==
    \A a \in AuthFlows : CancelledWhileParked(a) => task'[a].pc = "closing"

\* C29: when the context is cancelled while an authorization task is
\* blocked writing a prompt or awaiting an answer, the task leaves the
\* procedure there, with no further send, receive or other work, and goes
\* to close its channel.
C29_TaskStopsOnCancel == [][C29_Step]_vars

\* the commands of the last RegisterFlow call, as a set
RegCommandSet == {reg.commands[i] : i \in 1..Len(reg.commands)}

\* the last call named a new flow and no command bound to another flow
RegAcceptable ==
    /\ regCount > 0
    /\ reg.name \notin DOMAIN reg.prevFlows
    /\ \A c \in RegCommandSet : c \in DOMAIN reg.prevEntry => reg.prevEntry[c] = reg.name

\* C30: RegisterFlow with a name not yet registered and commands none of
\* which is bound to another flow succeeds: the flow is registered under
\* the name and every listed command is bound to it, other bindings kept,
\* also when the list is empty or names a command more than once.
C30_RegisterSucceeds ==
    RegAcceptable =>
        /\ reg.err = Nil
        /\ flows = Bind(reg.prevFlows, reg.name, reg.f)
        /\ DOMAIN flowCommandEntryPoints = (DOMAIN reg.prevEntry) \cup RegCommandSet
        /\ \A c \in DOMAIN flowCommandEntryPoints :
             flowCommandEntryPoints[c] = IF c \in RegCommandSet THEN reg.name
                                         ELSE reg.prevEntry[c]

----------------------------------------------------------------------------
(* The program while its context is never cancelled.  The Go scheduler     *)
(* runs every goroutine that can take a step: the running call and each    *)
(* background task are weakly fair.  No fairness is asked of the user.     *)

\* the steps of the goroutine that runs the scheduler's call
HandlerStep ==
    \/ SchedulerReturn
    \/ AuthorizerStart
    \/ AuthorizerHandleMessage
    \/ AuthorizerSend
    \/ AuthorizerReceive
    \/ AuthorizerReply
    \/ PostingHandleMessage

\* the steps of the goroutine StartAuthorization spawned for flow a
TaskStep(a) ==
    \/ TaskStart(a)
    \/ TaskSend(a)
    \/ TaskReceive(a)
    \/ TaskWork(a)
    \/ TaskClose(a)

NextLive ==
    \/ \E i \in Inbound : msgCount < MaxMsgs /\ SchedulerHandleMessage(i[1], i[2])
    \/ SchedulerReturn
    \/ AuthorizerStart
    \/ AuthorizerHandleMessage
    \/ AuthorizerSend
    \/ AuthorizerReceive
    \/ AuthorizerReply
    \/ PostingHandleMessage
    \/ \E a \in AuthFlows : TaskStart(a)
    \/ \E a \in AuthFlows : TaskSend(a)
    \/ \E a \in AuthFlows : TaskReceive(a)
    \/ \E a \in AuthFlows : TaskWork(a)
    \/ \E a \in AuthFlows : TaskClose(a)

SpecLive ==
    /\ Init
    /\ [][NextLive]_vars
    /\ WF_vars(HandlerStep)
    /\ \A a \in AuthFlows : WF_vars(TaskStep(a))

\* the scheduler has just passed a message to HandleMessage of an
\* authorization flow
AuthCallMade == hpc = "auth_hm" /\ call.method = "HandleMessage"

\* C31: while the context is never cancelled, every call of
\* AuthorizerFlow.HandleMessage the scheduler makes returns in the end (or
\* the process has ended), whatever the kind of the message.
C31_CallReturns == AuthCallMade ~> (hpc = "idle" \/ Crashed)

\* the same for the calls that carry an answer
C31_AnswerReturns == (AuthCallMade /\ AnswerDue(call.msg)) ~> (hpc = "idle" \/ Crashed)

\* C32: whatever the calls, cancellations, Start attempts and task steps,
\* AuthorizerFlow never sends on an authorization channel its task has
\* closed (the handler never panics).
C32_NoSendOnClosed == hpc # "panicked"

\* the posting flow is the scheduler's active flow
PostingActive == currentFlow = "microblog_post"

\* C33: PostingFlow never returns the terminal sentinel; once the posting
\* flow is the active flow it stays the active flow whatever the messages
\* (/send and /cancel included), and every later message is passed to its
\* HandleMessage: no Start of any flow runs again.
C33_Step ==
    /\ (hpc = "post_hm" /\ hpc' = "return") => ~ErrorsIs(hres', ErrFlowFinished)
    /\ PostingActive =>
         /\ PostingActive'
         /\ hpc' # "auth_start"
         /\ msgCount' # msgCount =>
              /\ call'.method = "HandleMessage"
              /\ call'.flow = "microblog_post"
              /\ hpc' = "post_hm"
C33_PostingNeverEnds == [][C33_Step]_vars

\* after /new, a /send and further messages, the entry command of an
\* authorization flow has been handled by the posting flow
C33_Witness ==
    /\ hpc = "idle"
    /\ call.done
    /\ call.msg.Text = Cmd("mastodon_auth")
    /\ call.flow = "microblog_post"
    /\ call.method = "HandleMessage"
    /\ PostingActive
    /\ msgCount = 4
    /\ task["maf"] = NoTask
    /\ ~HasDraft(posts, TheUser)

NoChannelErr == <<"no authorization channel">>

\* an authorization flow is active, holds no channel, and no Start of it is
\* under way: its Start failed in StartAuthorization
StartFailed ==
    /\ currentFlow # ""
    /\ FlowOf(currentFlow) \in AuthFlows
    /\ authorizationChan[FlowOf(currentFlow)] = 0
    /\ hpc # "auth_start"

\* C34: the flow is active when Start is invoked; a Start that fails in
\* StartAuthorization with no channel retained returns the wrapped error and
\* leaves the flow active; from then on the flow stays active without a
\* channel, and every later message is passed to its HandleMessage, which
\* returns "no authorization channel".
C34_Step ==
    /\ hpc' = "auth_start" => (currentFlow' = call'.flow /\ call'.method = "Start")
    /\ (hpc = "auth_start" /\ hpc' = "return" /\ authorizationChan[hflow] = 0) =>
         /\ hres'[1] = "starting authorization"
         /\ StartFailed'
    /\ StartFailed =>
         /\ StartFailed'
         /\ currentFlow' = currentFlow
         /\ msgCount' # msgCount => (hpc' = "auth_hm" /\ call'.flow = currentFlow)
         /\ (hpc = "auth_hm" /\ hpc' # hpc) => (hpc' = "return" /\ hres' = NoChannelErr)
         /\ (hpc = "return" /\ hpc' = "idle" /\ call.method = "HandleMessage") =>
              call'.ret = Wrap("handling message", NoChannelErr)
         /\ (hpc = "return" /\ hpc' = "idle" /\ call.method = "Start") =>
              (call'.ret = hres /\ call'.ret[1] = "starting authorization")
C34_FailedStartStaysActive == [][C34_Step]_vars

\* after a failed Start, two later messages have each been answered with
\* the error, and the flow is still active
C34_Witness ==
    /\ StartFailed
    /\ hpc = "idle"
    /\ msgCount = 3
    /\ call.done
    /\ call.method = "HandleMessage"
    /\ call.pre = currentFlow
    /\ call.ret = Wrap("handling message", NoChannelErr)
    /\ chanCount = 0

----------------------------------------------------------------------------
(* PostingFlow.defaultHandler running while /send or /cancel runs for the  *)
(* same user                                                               *)
(*                                                                         *)
(* p.posts holds pointers: the *MicroblogPost a call read from the map is  *)
(* the object every other call read, whether or not the map still holds    *)
(* it.  A write to the object is therefore seen through p.posts (while the *)
(* entry exists) and through the `post` of every call that found it.       *)
(* The appending call is at `app_lock`, `app_lookup`, `app_unlock`,        *)
(* `app_noactive`, `app_newline`, `app_text`, `app_reply` or `done`; a     *)
(* /cancel call at `can_lock`, `can_delete`, `can_unlock`, `can_reply` or  *)
(* `done`.                                                                 *)
(***************************************************************************)

\* the text of the content message
TheContent == <<"c">>

\* the object behind the pointers becomes np
WritePost(np) ==
    /\ posts' = IF HasDraft(posts, TheUser) THEN Bind(posts, TheUser, np) ELSE posts
    /\ UNCHANGED postCalls

\* p.postsMutex.Lock()
AppLock(t) ==
    /\ sender[t].pc = "app_lock"
    /\ CanLock(postsMutex)
    /\ postsMutex' = t
    /\ sender' = [sender EXCEPT ![t].pc = "app_lookup"]
    /\ UNCHANGED <<schedVars, callVars, regVars, authVars, outbox, postVars, published,
                  botVars, parsed>>

\* post, active := p.posts[userID]
AppLookup(t) ==
    /\ sender[t].pc = "app_lookup"
    /\ sender' = [sender EXCEPT ![t].exists = HasDraft(posts, TheUser),
                                ![t].post = IF HasDraft(posts, TheUser) THEN posts[TheUser] ELSE <<>>,
                                ![t].pc = "app_unlock"]
    /\ UNCHANGED <<schedVars, callVars, regVars, authVars, outbox, postVars, postsMutex, published,
                  botVars, parsed>>

\* p.postsMutex.Unlock(), then the test of active
AppUnlock(t) ==
    /\ sender[t].pc = "app_unlock"
    /\ postsMutex' = ""
    /\ sender' = [sender EXCEPT ![t].pc = IF sender[t].exists THEN "app_newline" ELSE "app_noactive"]
    /\ UNCHANGED <<schedVars, callVars, regVars, authVars, outbox, postVars, published,
                  botVars, parsed>>

\* the reply of a call that found no draft
AppNoActive(t) ==
    /\ sender[t].pc = "app_noactive"
    /\ sender' = [sender EXCEPT
           ![t].pc = "done",
           ![t].replies = Append(@, <<"No active post. Use /new to start writing a new post.">>)]
    /\ UNCHANGED <<schedVars, callVars, regVars, authVars, outbox, postVars, postsMutex, published,
                  botVars, parsed>>

\* a write of np to the object by call t, outside the mutex
AppWrite(t, np, pc) ==
    /\ sender' = [x \in Senders |->
                     IF x = t THEN [sender[x] EXCEPT !.post = np, !.pc = pc]
                     ELSE IF sender[x].exists THEN [sender[x] EXCEPT !.post = np]
                     ELSE sender[x]]
    /\ WritePost(np)

\* if len(post.Text) != 0 { post.Text += "\n" }
AppNewline(t) ==
    /\ sender[t].pc = "app_newline"
    /\ LET post == sender[t].post
       IN  AppWrite(t, IF Len(post.Text) # 0 THEN [post EXCEPT !.Text = @ \o <<"\n">>] ELSE post,
                    "app_text")
    /\ UNCHANGED <<schedVars, callVars, regVars, authVars, outbox, postsMutex, published,
                  botVars, parsed>>

\* post.Text += message.Text
AppText(t) ==
    /\ sender[t].pc = "app_text"
    /\ AppWrite(t, [sender[t].post EXCEPT !.Text = @ \o sender[t].text], "app_reply")
    /\ UNCHANGED <<schedVars, callVars, regVars, authVars, outbox, postsMutex, published,
                  botVars, parsed>>

\* messenger.SendMessage(ctx, message.Reply("Content added to your post"))
AppReply(t) ==
    /\ sender[t].pc = "app_reply"
    /\ sender' = [sender EXCEPT ![t].pc = "done",
                                ![t].replies = Append(@, <<"Content added to your post">>)]
    /\ UNCHANGED <<schedVars, callVars, regVars, authVars, outbox, postVars, postsMutex, published,
                  botVars, parsed>>

\* cancelCommandHandler: p.postsMutex.Lock()
CancelLock(t) ==
    /\ sender[t].pc = "can_lock"
    /\ CanLock(postsMutex)
    /\ postsMutex' = t
    /\ sender' = [sender EXCEPT ![t].pc = "can_delete"]
    /\ UNCHANGED <<schedVars, callVars, regVars, authVars, outbox, postVars, published,
                  botVars, parsed>>

\* _, exists := p.posts[userID]; if exists { delete(p.posts, userID) }
CancelDelete(t) ==
    /\ sender[t].pc = "can_delete"
    /\ posts' = DeleteDraft(posts, TheUser)
    /\ sender' = [sender EXCEPT ![t].pc = "can_unlock",
                                ![t].langs = IF HasDraft(posts, TheUser) THEN <<"exists">> ELSE <<>>]
    /\ UNCHANGED <<schedVars, callVars, regVars, authVars, outbox, postCalls, postsMutex, published,
                  botVars, parsed>>

\* p.postsMutex.Unlock()
CancelUnlock(t) ==
    /\ sender[t].pc = "can_unlock"
    /\ postsMutex' = ""
    /\ sender' = [sender EXCEPT ![t].pc = "can_reply"]
    /\ UNCHANGED <<schedVars, callVars, regVars, authVars, outbox, postVars, published,
                  botVars, parsed>>

\* the reply of /cancel
CancelReply(t) ==
    /\ sender[t].pc = "can_reply"
    /\ sender' = [sender EXCEPT
           ![t].pc = "done",
           ![t].replies = Append(@, IF sender[t].langs # <<>> THEN <<"Post canceled.">>
                                    ELSE <<"No active post to cancel.">>)]
    /\ UNCHANGED <<schedVars, callVars, regVars, authVars, outbox, postVars, postsMutex, published,
                  botVars, parsed>>

\* the posting flow is active, with a draft or none; a content message
\* (call s1) and a /send or a /cancel (call s2) are about to be handled
InitAppend ==
    /\ flows = FactoryScheduler.flows
    /\ flowCommandEntryPoints = FactoryScheduler.flowCommandEntryPoints
    /\ currentFlow = "microblog_post"
    /\ cfg = [maf |-> BaseConfig, bskyAF |-> StoredBskyConfig]
    /\ hpc = "idle"
    /\ hres = Nil
    /\ call = NoCall
    /\ msgCount = 0
    /\ dialogue = OffDialogue
    /\ reg = NoReg
    /\ regCount = 0
    /\ ctxDone = FALSE
    /\ authorizationChan = [a \in AuthFlows |-> 0]
    /\ chanCount = 0
    /\ chanClosed = [a \in AuthFlows |-> FALSE]
    /\ task = [a \in AuthFlows |-> NoTask]
    /\ hgot = <<>>
    /\ outbox = <<>>
    /\ taskWrote = <<>>
    /\ taskRead = <<>>
    /\ userGot = <<>>
    /\ turn = [a \in AuthFlows |-> "none"]
    /\ chanOps = [a \in AuthFlows |-> 0]
    /\ postCalls = <<>>
    /\ postsMutex = ""
    /\ published = <<>>
    /\ updates = [d \in Updates |-> NoUpdate]
    /\ flowSchedulers = 0
    /\ handling = <<>>
    /\ botFatal = FALSE
    /\ parsed = NotParsed
    /\ posts \in {NoPosts} \cup {Bind(NoPosts, TheUser, d) : d \in TheDrafts}
    /\ \E pc \in {"lock", "can_lock"} :
         sender = [t \in Senders |->
                      IF t = "s1" THEN [NoSender EXCEPT !.pc = "app_lock", !.text = TheContent]
                      ELSE [NoSender EXCEPT !.pc = pc]]

NextAppend ==
    \/ AppLock("s1")
    \/ AppLookup("s1")
    \/ AppUnlock("s1")
    \/ AppNoActive("s1")
    \/ AppNewline("s1")
    \/ AppText("s1")
    \/ AppReply("s1")
    \/ SendLock("s2")
    \/ SendLookup("s2")
    \/ SendDelete("s2")
    \/ SendUnlock("s2")
    \/ SendNoActive("s2")
    \/ SendPost("s2")
    \/ CancelLock("s2")
    \/ CancelDelete("s2")
    \/ CancelUnlock("s2")
    \/ CancelReply("s2")

SpecAppend == InitAppend /\ [][NextAppend]_vars

\* the content message has been acknowledged
ContentAcked == <<"Content added to your post">> \in {sender["s1"].replies[i] : i \in DOMAIN sender["s1"].replies}

\* the post carries the text of the content message
HasContent(post) == Len(post.Text) > 0 /\ post.Text[Len(post.Text)] = TheContent[1]

\* acknowledged content is, once both calls are done, in the draft as
\* published to every platform or in a draft still stored
AckedContentKept ==
    ((\A t \in Senders : sender[t].pc = "done") /\ ContentAcked) =>
       \/ HasDraft(posts, TheUser) /\ HasContent(posts[TheUser])
       \/ \A p \in Platforms :
             \E i \in DOMAIN published : published[i].platform = p /\ HasContent(published[i].post)

\* a call hands the same draft to every platform
PublishedUnchanged ==
    \A i, j \in DOMAIN published :
        published[i].by = published[j].by => published[i].post = published[j].post

\* C35: when a content message and a /send or /cancel of the same user run
\* concurrently, content acknowledged with "Content added to your post" is
\* in the draft as published to every platform or in a draft still stored
\* for the user, and the draft handed to the platforms does not change
\* while they publish it.
C35_NoAckedContentLost == AckedContentKept /\ PublishedUnchanged

\* the command of the message the running call handles, <<>> for content
HandledCommand ==
    IF IsCommand(call.msg) THEN AsCommand(call.msg).command ELSE <<>>

\* C36: under serialized calls there is no draft at first; a call of the
\* posting flow that handles /new leaves a draft stored for the user, one
\* that handles /send or /cancel leaves none, one that handles anything else
\* (content, an empty message, another command) leaves a draft if and only
\* if there was one; nothing else creates or removes a draft.  So a draft
\* exists exactly when the last of /new, /send, /cancel handled is /new.
C36_Step ==
    LET u == call.msg.UserID
    IN  /\ msgCount = 0 => posts = NoPosts
        /\ IF hpc = "post_hm" /\ hpc' = "return"
           THEN /\ HandledCommand = Cmd("new") => HasDraft(posts', u)
                /\ HandledCommand \in {Cmd("send"), Cmd("cancel")} => ~HasDraft(posts', u)
                /\ HandledCommand \notin {Cmd("new"), Cmd("send"), Cmd("cancel")} =>
                       DOMAIN posts' = DOMAIN posts
           ELSE posts' = posts
C36_TwoStates == [][C36_Step]_vars

\* a /new handled by the active posting flow has created a draft again:
\* the draft of the first /new was removed by a /send or /cancel before
C36_Witness ==
    /\ hpc = "return"
    /\ call.pre = "microblog_post"
    /\ call.method = "HandleMessage"
    /\ HandledCommand = Cmd("new")
    /\ msgCount = 4
    /\ HasDraft(posts, TheUser)
    /\ outbox = <<[msg |-> Reply(call.msg, <<"Started a new post.">>), ok |-> TRUE]>>

\* the callback of update d has called the scheduler factory
FactoryCalled(d) == updates[d].sched = d

\* the callback of update d has the scheduler it passes the message to
Routed(d) == updates[d].pc \in {"call", "handle", "done"}

\* C37: whatever the interleaving of the callbacks of one user's updates,
\* the scheduler factory is called at most once for the user and all the
\* updates are passed to the same scheduler.
C37_OneScheduler ==
    /\ \A d, e \in Updates : (FactoryCalled(d) /\ FactoryCalled(e)) => d = e
    /\ \A d, e \in Updates : (Routed(d) /\ Routed(e)) => updates[d].sched = updates[e].sched

====
